---- MODULE Spec2Model ----
(***************************************************************************)
(* A model of the reflected-XSS scanner: the same-host crawler             *)
(* (src/Crawler.py), the request executor (src/request.py), the payload    *)
(* catalog (src/payloads.py) and the probe-then-confirm detector           *)
(* (src/xss.py).                                                           *)
(*                                                                         *)
(* Three state machines share the module, each with its own specification: *)
(*   SpecCrawl  crawl_targets, one action per iteration of its while loop  *)
(*   SpecExec   execute_target, one action per attempt of its for loop     *)
(*   SpecScan   scan_xss, one action per request of its payload loops      *)
(* and three specifications apply a function to drawn arguments:           *)
(*   SpecReflect  is_reflected_unescaped                                   *)
(*   SpecPairs    build_request_pairs                                      *)
(*   SpecExtract  extract_page_targets (extract_forms, extract_get_target) *)
(* Strings whose characters matter (payloads, response bodies) are         *)
(* sequences of one-character strings; names, hosts and paths are atoms.   *)
(***************************************************************************)
EXTENDS Integers, Sequences, FiniteSets, TLC

VARIABLES
    \* ---- crawl_targets (src/Crawler.py:250-313)
    site,              \* the web site: URL -> what a GET of it returns
    base_url,          \* argument base_url
    max_pages,         \* argument max_pages
    include_submit,    \* argument include_submit
    queue,             \* deque of pending URLs
    visited,           \* set of visited URLs
    all_targets,       \* list of deduplicated targets
    seen_target_keys,  \* set of dedup keys
    fetch_log,         \* history: the URLs passed to session.get, in order
    enqueue_log,       \* history: the URLs appended to the queue, in order
    fetch_agents,      \* history: the User-Agent header of each session.get, in order
    crawl_pc,          \* "loop" | "done"
    \* ---- execute_target (src/request.py:119-179)
    cfg,               \* RequestConfig: retries, retry_on_status
    attempt,           \* the loop variable (0 before the first attempt)
    last_error,        \* local last_error
    exec_result,       \* the ExecutionResult returned, NoResult before
    exec_trace,        \* history: "send" / "sleep" events and what each send got
    exec_pc,           \* "idle" | "loop" | "returned"
    \* ---- scan_xss (src/xss.py:43-107)
    targets,           \* argument targets
    scan_cfg,          \* argument request_config (defaulted)
    ti,                \* index of the current target
    pi,                \* index of the current parameter in injectable_params
    phase,             \* "target" | "probe" | "confirm" | "done"; "raised" in a run
    k,                 \* index of the next payload of the current phase
    probe_hit,         \* local probe_hit
    findings,          \* list of XSSFinding
    finding_origin,    \* history: the <<ti, pi>> each finding came from
    sent_log,          \* history: the requests sent, each as [ti, pi, phase, k]
    reflected_confirms, \* history: the [ti, pi, k, status] of the confirm responses that reflected
    reflected_probes,  \* history: the <<ti, pi, k>> of the probes a response reflected
    failed_sends,      \* history: the [ti, pi, phase] in which an execution failed
    \* ---- is_reflected_unescaped (src/xss.py:23-30)
    reflect_payload,   \* argument payload
    reflect_text,      \* argument response_text
    reflect_result,    \* the value returned
    reflect_pc,        \* "call" | "returned"
    \* ---- build_request_pairs (src/request.py:52-89)
    bp_target,         \* argument target (its fixed_params and injectable_params)
    bp_tested_param,   \* argument tested_param
    bp_payload,        \* argument payload
    bp_default,        \* argument default_injectable_value
    bp_pairs,          \* the list returned
    bp_pc,             \* "call" | "returned"
    \* ---- extract_page_targets (src/Crawler.py:193-198)
    ex_url,            \* argument page_url
    ex_forms,          \* argument html: its <form> elements
    ex_include_submit, \* argument include_submit
    ex_targets,        \* the list returned
    ex_contexts,       \* per target, the context classified for each recorded type
    ex_pc              \* "call" | "returned" | "classified"

crawlVars == <<site, base_url, max_pages, include_submit, queue, visited,
               all_targets, seen_target_keys, fetch_log, enqueue_log, fetch_agents,
               crawl_pc>>
execVars == <<cfg, attempt, last_error, exec_result, exec_trace, exec_pc>>
scanVars == <<targets, scan_cfg, ti, pi, phase, k, probe_hit, findings,
              finding_origin, sent_log, reflected_probes, failed_sends,
              reflected_confirms>>
reflectVars == <<reflect_payload, reflect_text, reflect_result, reflect_pc>>
pairsVars == <<bp_target, bp_tested_param, bp_payload, bp_default, bp_pairs, bp_pc>>
extractVars == <<ex_url, ex_forms, ex_include_submit, ex_targets, ex_contexts, ex_pc>>
vars == <<crawlVars, execVars, scanVars, reflectVars, pairsVars, extractVars>>

(***************************************************************************)
(* Bounds of the model.                                                    *)
(***************************************************************************)
MaxPagesBound == 3
MaxRetries == 2

\* Python's None, for attributes that may be absent.
None == "<None>"

Range(s) == {s[i] : i \in DOMAIN s}

RECURSIVE SeqFilter(_, _)
\* The elements of sequence s that belong to set S, in order.
SeqFilter(s, S) ==
    IF s = <<>> THEN <<>>
    ELSE IF Head(s) \in S THEN <<Head(s)>> \o SeqFilter(Tail(s), S)
         ELSE SeqFilter(Tail(s), S)

(***************************************************************************)
(* Names of controls and parameters, in Python's string order (code point  *)
(* order), which is what sorted() uses.                                    *)
(***************************************************************************)
NameOrder ==
    <<"btn", "btn.x", "btn.y", "c", "csrf_token", "file", "id", "img", "msg",
      "opt", "q", "sel", "sort">>

\* sorted(S) for a set of names.
Sorted(S) == SeqFilter(NameOrder, S)

\* str.strip() on the names and attribute values the model uses.
Strip(s) ==
    CASE s = " q " -> "q"
      [] s = " id " -> "id"
      [] s = "  " -> ""
      [] s = " " -> ""
      [] s = " Post " -> "Post"
      [] s = " number " -> "number"
      [] s = " multipart/form-data " -> "multipart/form-data"
      [] OTHER -> s

\* str.upper() on the method values the model uses.
Upper(s) ==
    CASE s \in {"get", "Get", "GET"} -> "GET"
      [] s \in {"post", "Post", "POST"} -> "POST"
      [] s \in {"put", "PUT"} -> "PUT"
      [] OTHER -> s

\* str.lower() on the type and enctype values the model uses.
Lower(s) ==
    CASE s \in {"TEXT", "Text"} -> "text"
      [] s \in {"Hidden", "HIDDEN"} -> "hidden"
      [] s \in {"CheckBox", "CHECKBOX"} -> "checkbox"
      [] s \in {"Submit", "SUBMIT"} -> "submit"
      [] s \in {"Reset", "RESET"} -> "reset"
      [] s \in {"File", "FILE"} -> "file"
      [] s \in {"Number", "NUMBER"} -> "number"
      [] s = "Multipart/Form-Data" -> "multipart/form-data"
      [] s = "TEXT/HTML" -> "text/html"
      [] s = "Text/Html; charset=UTF-8" -> "text/html; charset=utf-8"
      [] OTHER -> s

(***************************************************************************)
(* Sessions.  A session is given by its default headers, a function from   *)
(* header names to values.                                                 *)
(***************************************************************************)
DEFAULT_USER_AGENT == "vkr-scanner/0.1 (+educational)"

\* requests.Session(): the headers are those of the requests library.
requests_Session ==
    [headers |-> ("User-Agent" :> "python-requests/2") @@ ("Accept" :> "*/*")]

\* create_session(config); headers.update lets the new value of a name win.
create_session(config) ==
    LET session == requests_Session
        named == [session EXCEPT !.headers = ("User-Agent" :> DEFAULT_USER_AGENT) @@ @]
    IN  IF config.headers # <<>>
          THEN [named EXCEPT !.headers = config.headers @@ @]
          ELSE named

(***************************************************************************)
(* URLs.  A URL is a record of the parts urlparse splits it into; query is *)
(* the list parse_qsl(..., keep_blank_values=True) returns for its query   *)
(* component, frag its fragment ("" when it has none).                     *)
(***************************************************************************)
MkUrl(h, p, q, f) == [host |-> h, path |-> p, query |-> q, frag |-> f]

\* urlparse(url).netloc
netloc(url) == url.host

\* urldefrag(url)[0]
urldefrag(url) == [url EXCEPT !.frag = ""]

(***************************************************************************)
(* An href attribute.  kind says what the string looks like:               *)
(*   "none"     the anchor has no href attribute                           *)
(*   "blank"    empty or whitespace only                                   *)
(*   "fragment" starts with "#"                                            *)
(*   "scheme"   starts with mailto:, tel:, javascript: or data: (scheme    *)
(*              holds which, in the case the page wrote it)                *)
(*   "rel"      a root-relative reference: path, query, fragment           *)
(*   "abs"      an absolute URL: host, path, query, fragment               *)
(***************************************************************************)
MkHref(kd, sc, h, p, q, f) ==
    [kind |-> kd, scheme |-> sc, host |-> h, path |-> p, query |-> q, frag |-> f]

HrefNone == MkHref("none", "", "", "", <<>>, "")
HrefBlank == MkHref("blank", "", "", "", <<>>, "")
HrefFragment(f) == MkHref("fragment", "", "", "", <<>>, f)
HrefScheme(sc) == MkHref("scheme", sc, "", "", <<>>, "")
HrefRel(p, q, f) == MkHref("rel", "", "", p, q, f)
HrefAbs(h, p, q, f) == MkHref("abs", "", h, p, q, f)

\* is_good_link(href)
is_good_link(href) ==
    IF href.kind = "none" THEN FALSE
    ELSE IF href.kind = "blank" THEN FALSE
    ELSE IF href.kind = "fragment" THEN FALSE
    ELSE IF href.kind = "scheme"
              /\ Lower(href.scheme) \in {"mailto:", "tel:", "javascript:", "data:"}
         THEN FALSE
    ELSE TRUE

\* urljoin(base, href) for the references is_good_link lets through.
urljoin(base, href) ==
    IF href.kind = "abs" THEN MkUrl(href.host, href.path, href.query, href.frag)
    ELSE IF href.kind = "rel" THEN MkUrl(base.host, href.path, href.query, href.frag)
    ELSE IF href.kind = "scheme" THEN MkUrl("", href.scheme, <<>>, "")
    ELSE IF href.kind = "fragment" THEN [base EXCEPT !.frag = href.frag]
    ELSE base

(***************************************************************************)
(* Targets.  form_html, which no caller reads, is left out.                *)
(***************************************************************************)
Target(u, m, inj, fx, src, kd, enc, csrf, ptypes, subm) ==
    [url |-> u, method |-> m, injectable_params |-> inj, fixed_params |-> fx,
     source_url |-> src, kind |-> kd, enctype |-> enc,
     csrf_param_names |-> csrf, param_types |-> ptypes, submit_options |-> subm]

(***************************************************************************)
(* HTML.  A page's HTML is the list of its <form> elements and the list of *)
(* its anchors' href attributes, both in document order.  A form is its    *)
(* method and enctype attributes (None when absent), its action attribute  *)
(* (an href, of kind "none" when absent) and its input/textarea/select/    *)
(* button descendants in document order.  A control                        *)
(* carries its attributes (None when absent), whether it has the checked,  *)
(* disabled and multiple attributes, its text (textarea), its options      *)
(* (select) and, for each ancestor fieldset, nearest first, whether that   *)
(* fieldset has the disabled attribute, whether the control lies inside    *)
(* the fieldset's first direct-child legend, and whether it lies inside    *)
(* another element that is a copy of that legend (same tag, attributes and *)
(* contents).                                                              *)
(***************************************************************************)
Control(tg, ty, nm, val, chk, dis, fss, txt, mult, opts) ==
    [tag |-> tg, type |-> ty, name |-> nm, value |-> val, checked |-> chk,
     disabled |-> dis, fieldsets |-> fss, text |-> txt, multiple |-> mult,
     options |-> opts]

Input(ty, nm, val) == Control("input", ty, nm, val, FALSE, FALSE, <<>>, "", FALSE, <<>>)
Checked(c) == [c EXCEPT !.checked = TRUE]
Disabled(c) == [c EXCEPT !.disabled = TRUE]
InFieldset(c, fsDisabled, inLegend) ==
    [c EXCEPT !.fieldsets = @ \o <<[disabled |-> fsDisabled, in_first_legend |-> inLegend,
                                    in_legend_copy |-> FALSE]>>]
InLegendCopy(c, fsDisabled) ==
    [c EXCEPT !.fieldsets = @ \o <<[disabled |-> fsDisabled, in_first_legend |-> FALSE,
                                    in_legend_copy |-> TRUE]>>]
Textarea(nm, txt) == Control("textarea", None, nm, None, FALSE, FALSE, <<>>, txt, FALSE, <<>>)
Select(nm, mult, opts) == Control("select", None, nm, None, FALSE, FALSE, <<>>, "", mult, opts)
Button(ty, nm, val) == Control("button", ty, nm, val, FALSE, FALSE, <<>>, "", FALSE, <<>>)
Option(val, txt, sel) == [value |-> val, text |-> txt, selected |-> sel]
Form(m, act, enc, ctrls) == [method |-> m, action |-> act, enctype |-> enc, controls |-> ctrls]

\* any(keyword in name.lower() for keyword in CSRF_KEYWORDS), on the model's names
_looks_like_csrf(name) == name \in {"csrf_token"}

\* `legends[0] in control.parents`: membership compares with ==, and two
\* elements are == when their tag, attributes and contents are the same, so an
\* ancestor that is a copy of the first legend counts as the first legend.
InFirstLegend(fieldset) == fieldset.in_first_legend \/ fieldset.in_legend_copy

\* _is_disabled(control)
_is_disabled(control) ==
    \/ control.disabled
    \/ \E i \in DOMAIN control.fieldsets :
          /\ control.fieldsets[i].disabled
          /\ ~InFirstLegend(control.fieldsets[i])

\* _option_value(option)
_option_value(option) ==
    LET value == IF option.value = None THEN Strip(option.text) ELSE option.value
    IN  value

\* dict.setdefault(name, ptype) on a dict kept as its list of items
SetDefault(d, name, ptype) ==
    IF \E i \in DOMAIN d : d[i][1] = name THEN d ELSE Append(d, <<name, ptype>>)

\* `x or default` for an attribute that may be None or ""
OrElse(x, default) == IF x = None \/ x = "" THEN default ELSE x

RECURSIVE SelectedValues(_, _)
\* [(name, _option_value(o)) for o in options if o.has_attr("selected")]
SelectedValues(name, options) ==
    IF options = <<>> THEN <<>>
    ELSE (IF Head(options).selected
            THEN <<(<<name, _option_value(Head(options))>>)>> ELSE <<>>)
         \o SelectedValues(name, Tail(options))

\* The locals of extract_forms' loop over one form's controls.
EmptyAcc ==
    [injectable |-> {}, fixed |-> <<>>, csrf_names |-> {}, param_types |-> <<>>,
     submit_candidates |-> <<>>]

\* The branch of extract_forms for an <input>, after the name checks.
InputStep(acc, control, name) ==
    LET input_type == Lower(OrElse(control.type, "text"))
        value == control.value
        a == [acc EXCEPT !.param_types = SetDefault(@, name, input_type)]
    IN  IF input_type = "hidden"
          THEN [a EXCEPT !.fixed = Append(@, <<name, OrElse(value, "")>>)]
        ELSE IF input_type \in {"submit", "button"}
          THEN [a EXCEPT !.submit_candidates = Append(@, <<name, OrElse(value, "")>>)]
        ELSE IF input_type = "image"
          THEN [a EXCEPT !.submit_candidates =
                    @ \o <<(<<name \o ".x", "0">>), (<<name \o ".y", "0">>)>>]
        ELSE IF input_type = "radio"
          THEN [a EXCEPT !.injectable = @ \cup {name},
                         !.fixed = IF control.checked
                                     THEN Append(@, <<name, IF value # None THEN value ELSE "on">>)
                                     ELSE @]
        ELSE IF input_type = "checkbox"
          THEN [a EXCEPT !.injectable = @ \cup {name},
                         !.fixed = IF control.checked
                                     THEN Append(@, <<name, OrElse(value, "on")>>)
                                     ELSE @]
        ELSE IF input_type \in {"reset", "file"}
          THEN a
        ELSE [a EXCEPT !.injectable = @ \cup {name}]

\* The branch of extract_forms for a <select>.
SelectStep(acc, control, name) ==
    LET a == [acc EXCEPT !.param_types = SetDefault(@, name, "select"),
                         !.injectable = @ \cup {name}]
        options == control.options
        selected == SelectSeq(options, LAMBDA o : o.selected)
    IN  IF options = <<>> THEN a
        ELSE IF control.multiple
          THEN [a EXCEPT !.fixed = @ \o SelectedValues(name, options)]
        ELSE LET chosen == IF selected # <<>> THEN selected[1] ELSE options[1]
             IN  [a EXCEPT !.fixed = Append(@, <<name, _option_value(chosen)>>)]

\* One iteration of extract_forms' loop over the controls of a form.
ControlStep(acc, control) ==
    IF _is_disabled(control) THEN acc
    ELSE IF control.name = None \/ control.name = "" THEN acc
    ELSE LET name == Strip(control.name) IN
         IF name = "" THEN acc
         ELSE LET a == IF _looks_like_csrf(name)
                         THEN [acc EXCEPT !.csrf_names = @ \cup {name}] ELSE acc
              IN  IF control.tag = "input" THEN InputStep(a, control, name)
                  ELSE IF control.tag = "textarea"
                    THEN [a EXCEPT !.param_types = SetDefault(@, name, "textarea"),
                                   !.injectable = @ \cup {name},
                                   !.fixed = Append(@, <<name, control.text>>)]
                  ELSE IF control.tag = "select" THEN SelectStep(a, control, name)
                  ELSE IF control.tag = "button"
                    THEN LET button_type == Lower(OrElse(control.type, "submit")) IN
                         [a EXCEPT !.param_types = SetDefault(@, name, "button:" \o button_type),
                                   !.submit_candidates =
                                       IF button_type \in {"submit", "button"}
                                         THEN Append(@, <<name, OrElse(control.value, "")>>)
                                         ELSE @]
                  ELSE a

RECURSIVE Controls(_, _)
\* extract_forms' loop over the controls, from locals acc.
Controls(acc, controls) ==
    IF controls = <<>> THEN acc
    ELSE Controls(ControlStep(acc, Head(controls)), Tail(controls))

\* sorted(param_types.items()): keys are unique, so the order is that of the names.
SortedItems(d) ==
    LET keys == {d[i][1] : i \in DOMAIN d}
        val(n) == (CHOOSE i \in DOMAIN d : d[i][1] = n)
        names == Sorted(keys)
    IN  [j \in DOMAIN names |-> d[val(names[j])]]

\* The Target extract_forms builds for one <form> of the page at page_url.
FormTarget(page_url, form, incl_submit) ==
    LET m == Upper(Strip(OrElse(form.method, "GET")))
        method == IF m \notin {"GET", "POST"} THEN "GET" ELSE m
        action_url == IF form.action.kind \in {"none", "blank"}
                        THEN urljoin(page_url, HrefAbs(page_url.host, page_url.path,
                                                       page_url.query, page_url.frag))
                        ELSE urljoin(page_url, form.action)
        enctype == Lower(Strip(OrElse(form.enctype, "application/x-www-form-urlencoded")))
        acc == Controls(EmptyAcc, form.controls)
        fixed == IF incl_submit /\ acc.submit_candidates # <<>>
                   THEN Append(acc.fixed, acc.submit_candidates[1]) ELSE acc.fixed
    IN  Target(action_url, method, Sorted(acc.injectable), fixed, page_url, "form",
               enctype, Sorted(acc.csrf_names), SortedItems(acc.param_types),
               acc.submit_candidates)

RECURSIVE extract_forms(_, _, _)
\* extract_forms(page_url, html, include_submit), html given as its forms
extract_forms(page_url, forms, incl_submit) ==
    IF forms = <<>> THEN <<>>
    ELSE <<FormTarget(page_url, Head(forms), incl_submit)>>
         \o extract_forms(page_url, Tail(forms), incl_submit)

\* StripKeys without the pairs whose value is blank.
StripKeys_DropBlankValues(params) ==
    LET kept == SelectSeq(params, LAMBDA pr : pr[1] # "" /\ Strip(pr[1]) # "" /\ pr[2] # "")
    IN  [i \in DOMAIN kept |-> <<Strip(kept[i][1]), kept[i][2]>>]

RECURSIVE StripKeys(_)
\* [(key.strip(), value) for key, value in params if key and key.strip()]
StripKeys(params) ==
    IF params = <<>> THEN <<>>
    ELSE (IF Head(params)[1] # "" /\ Strip(Head(params)[1]) # ""
            THEN <<(<<Strip(Head(params)[1]), Head(params)[2]>>)>> ELSE <<>>)
         \o StripKeys(Tail(params))

\* extract_get_target(url, source_url): <<>> for None, else <<target>>
extract_get_target(url, source_url) ==
    IF url.query = <<>> THEN <<>>
    ELSE LET params == url.query
             endpoint == [url EXCEPT !.query = <<>>]
             fixed == StripKeys(params)
             injectable == Sorted({fixed[i][1] : i \in DOMAIN fixed})
         IN  <<Target(endpoint, "GET", injectable, fixed, source_url, "query", None,
                      <<>>, [i \in DOMAIN injectable |-> <<injectable[i], "query">>],
                      <<>>)>>

\* extract_page_targets(page_url, html, include_submit)
extract_page_targets(page_url, forms, incl_submit) ==
    extract_forms(page_url, forms, incl_submit) \o extract_get_target(page_url, page_url)

(***************************************************************************)
(* The web site crawl_targets runs against.  A GET of a URL either raises  *)
(* requests.RequestException (resp "error") or returns a response with a   *)
(* Content-Type header and, as its HTML, forms and anchors.                *)
(***************************************************************************)
Page(r, ct, fs, ls) == [resp |-> r, content_type |-> ct, forms |-> fs, links |-> ls]

SeedHost == "h"
UrlRoot == MkUrl(SeedHost, "/", <<>>, "")
UrlA == MkUrl(SeedHost, "/a", <<>>, "")
UrlB == MkUrl(SeedHost, "/b", <<>>, "")
UrlS == MkUrl(SeedHost, "/s", <<(<<"id", "5">>), (<<"id", "6">>)>>, "")

SameHostUrls == {UrlRoot, UrlA, UrlB, UrlS}

\* <form method="get" action="/s"><input type="text" name="q"></form>
FormSearch == Form("get", HrefRel("/s", <<>>, ""), None, <<Input("text", "q", None)>>)

\* A POST form with a CSRF token, a textarea, a checked checkbox and a submit button.
FormPost ==
    Form(" Post ", HrefNone, "Multipart/Form-Data",
         <<Input("hidden", "csrf_token", "t0k"), Textarea("msg", "hi"),
           Checked(Input("checkbox", "opt", None)),
           Disabled(Input("text", "c", "x")), Button(None, "btn", "go")>>)

LinksLocal ==
    <<HrefRel("/a", <<>>, ""), HrefFragment("x"), HrefScheme("MailTo:"),
      HrefRel("/a", <<>>, "top"), HrefRel("/b", <<>>, ""), HrefRel("/s", UrlS.query, "")>>
LinksMixed ==
    <<HrefAbs("sub.h", "/", <<>>, ""), HrefRel("/s", UrlS.query, ""),
      HrefAbs(SeedHost, "/", <<>>, "f"), HrefAbs("other", "/a", <<>>, ""), HrefNone,
      HrefAbs("H", "/", <<>>, ""), HrefBlank>>

\* What one URL of the seed's host may return.
PageChoices ==
    { Page("error", "", <<>>, <<>>),
      Page("ok", "application/json", <<FormSearch>>, LinksLocal),
      Page("ok", "Text/Html; charset=UTF-8", <<FormSearch>>, LinksLocal),
      Page("ok", "text/html", <<FormSearch, FormPost>>, LinksMixed),
      Page("ok", "text/html", <<FormPost, FormSearch, FormSearch>>, LinksLocal),
      Page("ok", "text/html", <<>>, LinksMixed) }

\* What a URL of another host returns (fetched only by a crawler that leaves scope).
OffHostPage == Page("ok", "text/html", <<FormSearch>>, LinksLocal)

\* IsHtml taking every content type for HTML.
IsHtml_AnyType(content_type) == TRUE

\* "text/html" in content_type, content_type being the lowercased header
IsHtml(content_type) == Lower(content_type) \in {"text/html", "text/html; charset=utf-8"}

\* The response of session.get(url).
Fetch(url) == IF url \in DOMAIN site THEN site[url] ELSE OffHostPage

(***************************************************************************)
(* crawl_targets                                                           *)
(***************************************************************************)
\* TargetKey with the page of discovery added to the key.
TargetKey_WithSource(target) ==
    <<target.method, target.url, target.injectable_params, target.fixed_params,
      target.submit_options, target.csrf_param_names, target.enctype, target.kind,
      target.source_url>>

\* The key crawl_targets deduplicates on.
TargetKey(target) ==
    <<target.method, target.url, target.injectable_params, target.fixed_params,
      target.submit_options, target.csrf_param_names, target.enctype, target.kind>>

RECURSIVE MergeTargets_LastWins(_, _)
\* MergeTargets putting a target whose key was seen in the place of the entry
\* kept for that key.
MergeTargets_LastWins(acc, page_targets) ==
    IF page_targets = <<>> THEN acc
    ELSE LET target == Head(page_targets)
             key == TargetKey(target)
         IN  MergeTargets_LastWins(
                 IF key \notin acc.seen
                   THEN [all |-> Append(acc.all, target), seen |-> acc.seen \cup {key}]
                   ELSE [all |-> [i \in DOMAIN acc.all |->
                                    IF TargetKey(acc.all[i]) = key THEN target ELSE acc.all[i]],
                         seen |-> acc.seen],
                 Tail(page_targets))

RECURSIVE MergeTargets(_, _)
\* The loop over page_targets; acc holds all_targets and seen_target_keys.
MergeTargets(acc, page_targets) ==
    IF page_targets = <<>> THEN acc
    ELSE LET target == Head(page_targets)
             key == TargetKey(target)
         IN  MergeTargets(IF key \notin acc.seen
                            THEN [all |-> Append(acc.all, target), seen |-> acc.seen \cup {key}]
                            ELSE acc,
                          Tail(page_targets))

\* InScope letting a subdomain of the seed's host through.
InScope_Subdomain(abs_url) ==
    netloc(abs_url) \in {netloc(base_url), "sub." \o netloc(base_url)}

\* `urlparse(abs_url).netloc != base_host: continue`, as the condition to go on
InScope(abs_url) == netloc(abs_url) = netloc(base_url)

RECURSIVE EnqueueLinks_Unchecked(_, _, _, _)
\* EnqueueLinks without the `abs_url not in visited` test.
EnqueueLinks_Unchecked(q, url, links, vis) ==
    IF links = <<>> THEN q
    ELSE LET href == Head(links)
             abs_url == urldefrag(urljoin(url, href))
         IN  EnqueueLinks_Unchecked(IF is_good_link(href) /\ InScope(abs_url)
                                      THEN Append(q, abs_url) ELSE q,
                                    url, Tail(links), vis)

RECURSIVE EnqueueLinks_Front(_, _, _, _)
\* EnqueueLinks with appendleft in place of append.
EnqueueLinks_Front(q, url, links, vis) ==
    IF links = <<>> THEN q
    ELSE LET href == Head(links)
             abs_url == urldefrag(urljoin(url, href))
         IN  EnqueueLinks_Front(IF is_good_link(href) /\ InScope(abs_url) /\ abs_url \notin vis
                                  THEN <<abs_url>> \o q ELSE q,
                                url, Tail(links), vis)

RECURSIVE EnqueueLinks(_, _, _, _)
\* The loop over the page's anchors: the queue after it.
EnqueueLinks(q, url, links, vis) ==
    IF links = <<>> THEN q
    ELSE LET href == Head(links)
             abs_url == urldefrag(urljoin(url, href))
         IN  EnqueueLinks(IF is_good_link(href) /\ InScope(abs_url) /\ abs_url \notin vis
                            THEN Append(q, abs_url) ELSE q,
                          url, Tail(links), vis)

\* LoopCond with the cap compared by <= instead of <.
LoopCond_AtMost == queue # <<>> /\ Cardinality(visited) <= max_pages

\* `while queue and len(visited) < max_pages`
LoopCond == queue # <<>> /\ Cardinality(visited) < max_pages

\* CrawlSkipVisited putting the URL back at the end of the queue.
CrawlSkipVisited_Requeue ==
    /\ crawl_pc = "loop" /\ LoopCond
    /\ Head(queue) \in visited
    /\ queue' = Append(Tail(queue), Head(queue))
    /\ UNCHANGED <<site, base_url, max_pages, include_submit, visited, all_targets,
                   seen_target_keys, fetch_log, enqueue_log, fetch_agents, crawl_pc>>

\* `if url in visited: continue`
CrawlSkipVisited ==
    /\ crawl_pc = "loop" /\ LoopCond
    /\ Head(queue) \in visited
    /\ queue' = Tail(queue)
    /\ UNCHANGED <<site, base_url, max_pages, include_submit, visited, all_targets,
                   seen_target_keys, fetch_log, enqueue_log, fetch_agents, crawl_pc>>

\* session.get raises requests.RequestException: continue
CrawlFetchError ==
    /\ crawl_pc = "loop" /\ LoopCond
    /\ LET url == Head(queue) IN
         /\ url \notin visited
         /\ Fetch(url).resp = "error"
         /\ visited' = visited \cup {url}
         /\ fetch_log' = Append(fetch_log, url)
         /\ fetch_agents' = Append(fetch_agents, requests_Session.headers["User-Agent"])
    /\ queue' = Tail(queue)
    /\ UNCHANGED <<site, base_url, max_pages, include_submit, all_targets,
                   seen_target_keys, enqueue_log, crawl_pc>>

\* the response is not HTML: continue
CrawlNotHtml ==
    /\ crawl_pc = "loop" /\ LoopCond
    /\ LET url == Head(queue) IN
         /\ url \notin visited
         /\ Fetch(url).resp = "ok"
         /\ ~IsHtml(Fetch(url).content_type)
         /\ visited' = visited \cup {url}
         /\ fetch_log' = Append(fetch_log, url)
         /\ fetch_agents' = Append(fetch_agents, requests_Session.headers["User-Agent"])
    /\ queue' = Tail(queue)
    /\ UNCHANGED <<site, base_url, max_pages, include_submit, all_targets,
                   seen_target_keys, enqueue_log, crawl_pc>>

\* an HTML page: merge its targets, enqueue its in-scope links
CrawlPage ==
    /\ crawl_pc = "loop" /\ LoopCond
    /\ LET url == Head(queue)
           page == Fetch(url)
           merged == MergeTargets([all |-> all_targets, seen |-> seen_target_keys],
                                  extract_page_targets(url, page.forms, include_submit))
       IN
         /\ url \notin visited
         /\ page.resp = "ok"
         /\ IsHtml(page.content_type)
         /\ visited' = visited \cup {url}
         /\ fetch_log' = Append(fetch_log, url)
         /\ fetch_agents' = Append(fetch_agents, requests_Session.headers["User-Agent"])
         /\ all_targets' = merged.all
         /\ seen_target_keys' = merged.seen
         /\ queue' = EnqueueLinks(Tail(queue), url, page.links, visited')
         /\ enqueue_log' = enqueue_log \o EnqueueLinks(<<>>, url, page.links, visited')
    /\ UNCHANGED <<site, base_url, max_pages, include_submit, crawl_pc>>

\* the loop condition fails: return list(visited), all_targets
CrawlReturn ==
    /\ crawl_pc = "loop" /\ ~LoopCond
    /\ crawl_pc' = "done"
    /\ UNCHANGED <<site, base_url, max_pages, include_submit, queue, visited,
                   all_targets, seen_target_keys, fetch_log, enqueue_log, fetch_agents>>

\* The state crawl_targets starts its loop in.
CrawlInit ==
    /\ site \in [SameHostUrls -> PageChoices]
    /\ base_url \in {UrlRoot, UrlS}
    /\ max_pages \in 0..MaxPagesBound
    /\ include_submit \in BOOLEAN
    /\ queue = <<base_url>>
    /\ visited = {}
    /\ all_targets = <<>>
    /\ seen_target_keys = {}
    /\ fetch_log = <<>>
    /\ enqueue_log = <<base_url>>
    /\ fetch_agents = <<>>
    /\ crawl_pc = "loop"

\* The crawler while another component is the one modelled.
CrawlIdle ==
    /\ site = [u \in {} |-> None]
    /\ base_url = UrlRoot
    /\ max_pages = 0
    /\ include_submit = FALSE
    /\ queue = <<>>
    /\ visited = {}
    /\ all_targets = <<>>
    /\ seen_target_keys = {}
    /\ fetch_log = <<>>
    /\ enqueue_log = <<>>
    /\ fetch_agents = <<>>
    /\ crawl_pc = "idle"

(***************************************************************************)
(* execute_target.  What one call of _send_once does is an outcome: a      *)
(* response (its status code and body) or a raised RequestException (its   *)
(* str(), which may be empty).  The ExecutionResult's method, url,         *)
(* tested_param and payload echo the arguments and are left out.           *)
(***************************************************************************)
Response(st, b) == [kind |-> "response", status |-> st, body |-> b, msg |-> ""]
Raised(m) == [kind |-> "error", status |-> 0, body |-> <<>>, msg |-> m]

\* response=None in an ExecutionResult
NoResponse == [kind |-> "none", status |-> 0, body |-> <<>>, msg |-> ""]

\* exec_result before execute_target has returned
NoResult == [success |-> FALSE, response |-> NoResponse, error |-> None, attempts |-> 0]

RequestConfig(r, ros) == [retries |-> r, retry_on_status |-> ros, headers |-> <<>>]

\* RequestConfig.retry_on_status by default
DefaultRetryOnStatus == {429, 500, 502, 503, 504}

\* MaxAttempts counting one attempt too many.
MaxAttempts_OffByOne(c) == IF c.retries + 2 > 1 THEN c.retries + 2 ELSE 1

\* `max_attempts = max(1, cfg.retries + 1)`
MaxAttempts(c) == IF c.retries + 1 > 1 THEN c.retries + 1 ELSE 1

\* RetryStatus without `and attempt < max_attempts`.
RetryStatus_NoAttemptCheck(c, response, att) == response.status \in c.retry_on_status

\* `response.status_code in cfg.retry_on_status and attempt < max_attempts`
RetryStatus(c, response, att) ==
    response.status \in c.retry_on_status /\ att < MaxAttempts(c)

\* `if attempt < max_attempts` in the except branch
RetryError(c, att) == att < MaxAttempts(c)

\* SuccessResult carrying the error of an earlier attempt.
SuccessResult_KeepsError(response, att) ==
    [success |-> TRUE, response |-> response, error |-> last_error, attempts |-> att]

\* SuccessResult turning into a failure once an earlier attempt has raised.
SuccessResult_FailsAfterError(response, att) ==
    IF last_error # None
      THEN [success |-> FALSE, response |-> NoResponse, error |-> last_error, attempts |-> att]
      ELSE [success |-> TRUE, response |-> response, error |-> None, attempts |-> att]

\* The ExecutionResult returned from inside the loop.
SuccessResult(response, att) ==
    [success |-> TRUE, response |-> response, error |-> None, attempts |-> att]

\* The ExecutionResult returned after the loop.
FailureResult(c, last_err) ==
    [success |-> FALSE, response |-> NoResponse,
     error |-> IF last_err = None \/ last_err = "" THEN "unknown request error" ELSE last_err,
     attempts |-> MaxAttempts(c)]

\* RecordError keeping the first error (`last_error = last_error or str(exc)`).
RecordError_KeepFirst(last_err, msg) == IF last_err = None THEN msg ELSE last_err

\* `last_error = str(exc)`
RecordError(last_err, msg) == msg

Send(att, out) == [ev |-> "send", attempt |-> att, out |-> out]
Sleep(att) == [ev |-> "sleep", attempt |-> att, out |-> NoResponse]

\* What the model lets one attempt of execute_target get.
ExecOutcomes ==
    {Response(st, <<>>) : st \in {200, 404, 429, 503}}
        \cup {Raised(m) : m \in {"", "timed out", "refused"}}

\* An attempt that gets a response: retry after a sleep, or return it.
ExecResponse ==
    /\ exec_pc = "loop" /\ attempt < MaxAttempts(cfg)
    /\ \E out \in ExecOutcomes :
         /\ out.kind = "response"
         /\ attempt' = attempt + 1
         /\ IF RetryStatus(cfg, out, attempt')
              THEN /\ exec_trace' = exec_trace \o <<Send(attempt', out), Sleep(attempt')>>
                   /\ UNCHANGED <<exec_result, exec_pc>>
              ELSE /\ exec_trace' = Append(exec_trace, Send(attempt', out))
                   /\ exec_result' = SuccessResult(out, attempt')
                   /\ exec_pc' = "returned"
    /\ UNCHANGED <<cfg, last_error>>

\* An attempt that raises requests.RequestException: retry after a sleep, or leave the loop.
ExecError ==
    /\ exec_pc = "loop" /\ attempt < MaxAttempts(cfg)
    /\ \E out \in ExecOutcomes :
         /\ out.kind = "error"
         /\ attempt' = attempt + 1
         /\ last_error' = RecordError(last_error, out.msg)
         /\ exec_trace' = IF RetryError(cfg, attempt')
                            THEN exec_trace \o <<Send(attempt', out), Sleep(attempt')>>
                            ELSE Append(exec_trace, Send(attempt', out))
    /\ UNCHANGED <<cfg, exec_result, exec_pc>>

\* The loop is exhausted: the return after it.
ExecExhausted ==
    /\ exec_pc = "loop" /\ attempt >= MaxAttempts(cfg)
    /\ exec_result' = FailureResult(cfg, last_error)
    /\ exec_pc' = "returned"
    /\ UNCHANGED <<cfg, attempt, last_error, exec_trace>>

\* The state execute_target enters its loop in.
ExecInit ==
    /\ cfg \in {RequestConfig(r, ros) :
                  r \in (-1)..MaxRetries, ros \in {DefaultRetryOnStatus, {}, {404, 429}}}
    /\ attempt = 0
    /\ last_error = None
    /\ exec_result = NoResult
    /\ exec_trace = <<>>
    /\ exec_pc = "loop"

\* The executor while another component is the one modelled.
ExecIdle ==
    /\ cfg = RequestConfig(1, DefaultRetryOnStatus)
    /\ attempt = 0
    /\ last_error = None
    /\ exec_result = NoResult
    /\ exec_trace = <<>>
    /\ exec_pc = "idle"

RECURSIVE RunAttempts(_, _, _, _)
\* execute_target as a function of the outcomes its attempts get: the loop from
\* attempt att + 1 on, outs being the outcomes still to come.
RunAttempts(c, outs, att, last_err) ==
    IF att >= MaxAttempts(c) \/ outs = <<>> THEN FailureResult(c, last_err)
    ELSE LET out == Head(outs) IN
         IF out.kind = "response"
           THEN IF RetryStatus(c, out, att + 1)
                  THEN RunAttempts(c, Tail(outs), att + 1, last_err)
                  ELSE SuccessResult(out, att + 1)
           ELSE RunAttempts(c, Tail(outs), att + 1, RecordError(last_err, out.msg))

\* execute_target(...) when its attempts get the outcomes outs, one per attempt
execute_target(c, outs) == RunAttempts(c, outs, 0, None)

(***************************************************************************)
(* The payload catalog (src/payloads.py), each string as its characters.   *)
(***************************************************************************)
\* src/payloads.py:7
ProbePlain ==
    <<"x", "s", "s", "p", "r", "o", "b", "e", "1", "2", "3">>

\* src/payloads.py:8
ProbeMarkup ==
    <<"x", "s", "s", "'", "\"", "<", ">", "1", "2", "3">>

\* src/payloads.py:11
HtmlScript ==
    <<"<", "s", "c", "r", "i", "p", "t", ">", "a", "l", "e", "r", "t", "(", "1", "3",
      "3", "7", ")", "<", "/", "s", "c", "r", "i", "p", "t", ">">>

\* src/payloads.py:12
HtmlImg ==
    <<"<", "i", "m", "g", " ", "s", "r", "c", "=", "x", " ", "o", "n", "e", "r", "r",
      "o", "r", "=", "a", "l", "e", "r", "t", "(", "1", "3", "3", "7", ")", ">">>

\* src/payloads.py:15
AttrMouseover ==
    <<"\"", " ", "o", "n", "m", "o", "u", "s", "e", "o", "v", "e", "r", "=", "\"",
      "a", "l", "e", "r", "t", "(", "1", "3", "3", "7", ")">>

\* src/payloads.py:16
AttrAutofocus ==
    <<"'", " ", "a", "u", "t", "o", "f", "o", "c", "u", "s", " ", "o", "n", "f", "o",
      "c", "u", "s", "=", "a", "l", "e", "r", "t", "(", "1", "3", "3", "7", ")", " ",
      "x", "=", "'">>

\* src/payloads.py:19
JsSingle ==
    <<"'", ";", "a", "l", "e", "r", "t", "(", "1", "3", "3", "7", ")", ";", "/", "/">>

\* src/payloads.py:20
JsDouble ==
    <<"\"", ";", "a", "l", "e", "r", "t", "(", "1", "3", "3", "7", ")", ";", "/", "/">>

\* "<script>", the payload of the specification's escaped-reflection scenario
ScriptTag ==
    <<"<", "s", "c", "r", "i", "p", "t", ">">>

\* XSS_PAYLOADS
XSS_PAYLOADS ==
    [context \in {"probe", "html", "attr", "js"} |->
        CASE context = "probe" -> <<ProbePlain, ProbeMarkup>>
          [] context = "html" -> <<HtmlScript, HtmlImg>>
          [] context = "attr" -> <<AttrMouseover, AttrAutofocus>>
          [] context = "js" -> <<JsSingle, JsDouble>>]

\* get_probe_payloads()
get_probe_payloads == XSS_PAYLOADS["probe"]

\* get_context_payloads(context)
get_context_payloads(context) ==
    IF context \in DOMAIN XSS_PAYLOADS THEN XSS_PAYLOADS[context] ELSE XSS_PAYLOADS["html"]

\* normalize_param_type(param_type)
normalize_param_type(param_type) ==
    IF param_type = None \/ param_type = "" THEN "unknown" ELSE Lower(Strip(param_type))

\* ptype.startswith("button:"), on the types extract_forms records for a <button>
StartsWithButton(ptype) ==
    ptype \in {"button:" \o t : t \in {"submit", "button", "reset", "menu"}}

\* classify_xss_context(param_type)
classify_xss_context(param_type) ==
    LET ptype == normalize_param_type(param_type) IN
    IF ptype \in {"query"} THEN "html"
    ELSE IF ptype \in {"textarea", "text", "search", "email", "url", "tel", "password"}
      THEN "html"
    ELSE IF ptype \in {"hidden", "select"} THEN "attr"
    ELSE IF ptype \in {"number", "range", "date", "datetime-local", "time", "month", "week"}
      THEN "js"
    ELSE IF StartsWithButton(ptype) THEN "attr"
    ELSE "html"

(***************************************************************************)
(* is_reflected_unescaped                                                  *)
(***************************************************************************)
\* html.escape of one character (quote=True)
EscapeChar(c) ==
    CASE c = "&" -> <<"&", "a", "m", "p", ";">>
      [] c = "<" -> <<"&", "l", "t", ";">>
      [] c = ">" -> <<"&", "g", "t", ";">>
      [] c = "\"" -> <<"&", "q", "u", "o", "t", ";">>
      [] c = "'" -> <<"&", "#", "x", "2", "7", ";">>
      [] OTHER -> <<c>>

RECURSIVE html_escape(_)
\* html.escape(s)
html_escape(s) == IF s = <<>> THEN <<>> ELSE EscapeChar(Head(s)) \o html_escape(Tail(s))

\* `needle in haystack` for Python strings
Contains(haystack, needle) ==
    \E i \in 0..(Len(haystack) - Len(needle)) :
        SubSeq(haystack, i + 1, i + Len(needle)) = needle

\* is_reflected_unescaped(payload, response_text)
is_reflected_unescaped(payload, response_text) ==
    LET escaped == html_escape(payload)
    IN  Contains(response_text, payload) /\ ~Contains(response_text, escaped)

\* Text around a reflection in a response body.
Filler == <<"<", "p", ">", "o", "k", "<", "/", "p", ">">>

\* The response bodies the model draws from for a request carrying payload.
BodiesFor(payload) ==
    { pre \o mid \o post :
        pre \in {<<>>, Filler},
        mid \in {<<>>, payload, html_escape(payload),
                 payload \o html_escape(payload), SubSeq(payload, 1, Len(payload) - 1)},
        post \in {<<>>, Filler} }

\* The payloads is_reflected_unescaped is applied to.
ReflectPayloads ==
    {ProbePlain, ProbeMarkup, HtmlScript, HtmlImg, AttrMouseover, AttrAutofocus,
     JsSingle, JsDouble, ScriptTag}

ReflectInit ==
    /\ reflect_payload \in ReflectPayloads
    /\ reflect_text \in BodiesFor(reflect_payload)
    /\ reflect_result = FALSE
    /\ reflect_pc = "call"

ReflectIdle ==
    /\ reflect_payload = <<>>
    /\ reflect_text = <<>>
    /\ reflect_result = FALSE
    /\ reflect_pc = "idle"

\* The call returns True.
ReflectTrue ==
    /\ reflect_pc = "call"
    /\ is_reflected_unescaped(reflect_payload, reflect_text)
    /\ reflect_result' = TRUE
    /\ reflect_pc' = "returned"
    /\ UNCHANGED <<reflect_payload, reflect_text>>

\* The call returns False.
ReflectFalse ==
    /\ reflect_pc = "call"
    /\ ~is_reflected_unescaped(reflect_payload, reflect_text)
    /\ reflect_result' = FALSE
    /\ reflect_pc' = "returned"
    /\ UNCHANGED <<reflect_payload, reflect_text>>

\* XSSFinding recording the request URL as the page of discovery.
XSSFinding_SourceIsUrl(target, param, context, payload, status_code) ==
    [finding_type |-> "Reflected XSS", url |-> target.url, method |-> target.method,
     param |-> param, context |-> context, payload |-> payload,
     source_url |-> target.url, status_code |-> status_code]

(***************************************************************************)
(* scan_xss                                                                *)
(***************************************************************************)
XSSFinding(target, param, context, payload, status_code) ==
    [finding_type |-> "Reflected XSS", url |-> target.url, method |-> target.method,
     param |-> param, context |-> context, payload |-> payload,
     source_url |-> target.source_url, status_code |-> status_code]

\* param_type_map(target).get(param)
ParamType(target, param) ==
    IF \E i \in DOMAIN target.param_types : target.param_types[i][1] = param
      THEN target.param_types[CHOOSE i \in DOMAIN target.param_types :
                                  target.param_types[i][1] = param][2]
      ELSE None

\* payloads_for_param(target, param)
payloads_for_param(target, param) ==
    LET context == classify_xss_context(ParamType(target, param))
    IN  [context |-> context, payloads |-> get_context_payloads(context)]

\* Forms for the targets scan_xss is given.
FormNoInjectable ==
    Form(None, HrefNone, None, <<Input("hidden", "id", "7"), Input("submit", "btn", "Go")>>)
FormTyped ==
    Form("POST", HrefRel("/b", <<>>, ""), None,
         <<Input("number", "c", "1"),
           Select("sel", FALSE, <<Option(None, " q ", FALSE), Option("v", "", TRUE)>>)>>)

\* The target lists scan_xss is given: what extract_page_targets returns for pages.
ScanTargetLists ==
    { <<>>,
      extract_page_targets(UrlRoot, <<FormSearch>>, FALSE),
      extract_page_targets(UrlRoot, <<FormNoInjectable, FormPost>>, TRUE),
      extract_page_targets(UrlS, <<FormTyped>>, FALSE),
      extract_page_targets(UrlA, <<FormSearch, FormNoInjectable, FormSearch>>, FALSE) }

\* The response bodies the model draws from for a request of the scan.
ScanBodies(payload) ==
    {<<>>, payload, html_escape(payload), Filler \o payload \o html_escape(payload),
     Filler \o payload \o Filler}

\* What the model lets one attempt of a request carrying payload get.
ScanOutcomes(payload) ==
    {Raised("timed out")}
        \cup {Response(st, b) : st \in {200, 500}, b \in ScanBodies(payload)}

\* One outcome per attempt execute_target may make under config c.
OutcomeSeqs(c, payload) == [1..MaxAttempts(c) -> ScanOutcomes(payload)]

\* A position in scan_xss's loops, with the value of probe_hit there.
Pos(t, p, ph, kk, hit) == [ti |-> t, pi |-> p, phase |-> ph, k |-> kk, hit |-> hit]

SetPos(pos) ==
    /\ ti' = pos.ti
    /\ pi' = pos.pi
    /\ phase' = pos.phase
    /\ k' = pos.k
    /\ probe_hit' = pos.hit

\* The next iteration of `for param in target.injectable_params`, or of `for target in targets`.
NextParam ==
    IF pi < Len(targets[ti].injectable_params)
      THEN Pos(ti, pi + 1, "probe", 1, FALSE)
      ELSE Pos(ti + 1, 1, "target", 1, FALSE)

\* AfterProbes without the `if not probe_hit: continue` gate.
AfterProbes_NoGate(hit) == Pos(ti, pi, "confirm", 1, hit)

\* `if not probe_hit: continue`, then the confirm loop
AfterProbes(hit) == IF ~hit THEN NextParam ELSE Pos(ti, pi, "confirm", 1, hit)

\* ProbeContinue leaving the target when the last probe got no hit.
ProbeContinue_LeaveTarget ==
    IF k < Len(get_probe_payloads) THEN Pos(ti, pi, "probe", k + 1, probe_hit)
    ELSE Pos(ti + 1, 1, "target", 1, FALSE)

\* ProbeContinue leaving the probe loop at once, as a `break` would.
ProbeContinue_Break == AfterProbes(probe_hit)

\* `continue` in the probe loop: the next probe payload, or the end of the loop
ProbeContinue ==
    IF k < Len(get_probe_payloads) THEN Pos(ti, pi, "probe", k + 1, probe_hit)
    ELSE AfterProbes(probe_hit)

\* AfterFinding without the `break`.
AfterFinding_NoBreak(kk, n) == kk + 1

\* The index of the confirm loop after a finding is appended: `break`
AfterFinding(kk, n) == n + 1

\* The confirm loop goes on at index kk: the next payload, or the next parameter.
ConfirmGoOn(kk) ==
    IF kk <= Len(payloads_for_param(targets[ti], targets[ti].injectable_params[pi]).payloads)
      THEN Pos(ti, pi, "confirm", kk, probe_hit)
      ELSE NextParam

\* `if not target.injectable_params: continue`
ScanSkipTarget ==
    /\ phase = "target" /\ ti <= Len(targets)
    /\ targets[ti].injectable_params = <<>>
    /\ ti' = ti + 1
    /\ UNCHANGED <<targets, scan_cfg, pi, phase, k, probe_hit, findings, finding_origin,
                   sent_log, reflected_probes, failed_sends, reflected_confirms>>

\* The first parameter of a target that has injectable parameters.
ScanEnterTarget ==
    /\ phase = "target" /\ ti <= Len(targets)
    /\ targets[ti].injectable_params # <<>>
    /\ SetPos(Pos(ti, 1, "probe", 1, FALSE))
    /\ UNCHANGED <<targets, scan_cfg, findings, finding_origin, sent_log, reflected_probes,
                   reflected_confirms,
                   failed_sends>>

\* `return findings`
ScanReturn ==
    /\ phase = "target" /\ ti > Len(targets)
    /\ phase' = "done"
    /\ UNCHANGED <<targets, scan_cfg, ti, pi, k, probe_hit, findings, finding_origin,
                   sent_log, reflected_probes, failed_sends, reflected_confirms>>

\* The request of the current loop iteration, as sent_log records it.
Sent ==
    [ti |-> ti, pi |-> pi, phase |-> phase, k |-> k,
     agent |-> create_session(scan_cfg).headers["User-Agent"]]

\* A response reflects payload verbatim and not entity-escaped.
Reflects(response, payload) ==
    /\ Contains(response.body, payload)
    /\ ~Contains(response.body, html_escape(payload))

\* A probe request whose execution failed: continue.
ScanProbeFailed ==
    /\ phase = "probe"
    /\ LET payload == get_probe_payloads[k] IN
       \E outs \in OutcomeSeqs(scan_cfg, payload) :
         LET result == execute_target(scan_cfg, outs) IN
         /\ ~result.success \/ result.response = NoResponse
         /\ SetPos(ProbeContinue)
    /\ sent_log' = Append(sent_log, Sent)
    /\ failed_sends' = failed_sends \cup {[ti |-> ti, pi |-> pi, phase |-> phase]}
    /\ UNCHANGED <<targets, scan_cfg, findings, finding_origin, reflected_probes,
                   reflected_confirms>>

\* A probe request answered without an unescaped reflection: the next payload.
ScanProbeMiss ==
    /\ phase = "probe"
    /\ LET payload == get_probe_payloads[k] IN
       \E outs \in OutcomeSeqs(scan_cfg, payload) :
         LET result == execute_target(scan_cfg, outs) IN
         /\ result.success /\ result.response # NoResponse
         /\ ~is_reflected_unescaped(payload, result.response.body)
         /\ SetPos(ProbeContinue)
         /\ reflected_probes' =
               IF Reflects(result.response, payload)
                 THEN reflected_probes \cup {<<ti, pi, k>>} ELSE reflected_probes
    /\ sent_log' = Append(sent_log, Sent)
    /\ UNCHANGED <<targets, scan_cfg, findings, finding_origin, failed_sends,
                   reflected_confirms>>

\* A probe request answered with an unescaped reflection: probe_hit, break.
ScanProbeHit ==
    /\ phase = "probe"
    /\ LET payload == get_probe_payloads[k] IN
       \E outs \in OutcomeSeqs(scan_cfg, payload) :
         LET result == execute_target(scan_cfg, outs) IN
         /\ result.success /\ result.response # NoResponse
         /\ is_reflected_unescaped(payload, result.response.body)
         /\ SetPos(AfterProbes(TRUE))
         /\ reflected_probes' =
               IF Reflects(result.response, payload)
                 THEN reflected_probes \cup {<<ti, pi, k>>} ELSE reflected_probes
    /\ sent_log' = Append(sent_log, Sent)
    /\ UNCHANGED <<targets, scan_cfg, findings, finding_origin, failed_sends,
                   reflected_confirms>>

\* The history of reflected confirm responses after the response to the
\* current confirm request.
ReflectedConfirm(response, payload) ==
    IF Reflects(response, payload)
      THEN reflected_confirms \cup {[ti |-> ti, pi |-> pi, k |-> k, status |-> response.status]}
      ELSE reflected_confirms

\* A confirm request whose execution failed: continue.
ScanConfirmFailed ==
    /\ phase = "confirm"
    /\ LET target == targets[ti]
           pp == payloads_for_param(target, target.injectable_params[pi])
       IN  \E outs \in OutcomeSeqs(scan_cfg, pp.payloads[k]) :
             LET result == execute_target(scan_cfg, outs) IN
             /\ ~result.success \/ result.response = NoResponse
             /\ SetPos(ConfirmGoOn(k + 1))
    /\ sent_log' = Append(sent_log, Sent)
    /\ failed_sends' = failed_sends \cup {[ti |-> ti, pi |-> pi, phase |-> phase]}
    /\ UNCHANGED <<targets, scan_cfg, findings, finding_origin, reflected_probes,
                   reflected_confirms>>

\* A confirm request answered without an unescaped reflection: the next payload.
ScanConfirmMiss ==
    /\ phase = "confirm"
    /\ LET target == targets[ti]
           pp == payloads_for_param(target, target.injectable_params[pi])
       IN  \E outs \in OutcomeSeqs(scan_cfg, pp.payloads[k]) :
             LET result == execute_target(scan_cfg, outs) IN
             /\ result.success /\ result.response # NoResponse
             /\ ~is_reflected_unescaped(pp.payloads[k], result.response.body)
             /\ SetPos(ConfirmGoOn(k + 1))
             /\ reflected_confirms' = ReflectedConfirm(result.response, pp.payloads[k])
    /\ sent_log' = Append(sent_log, Sent)
    /\ UNCHANGED <<targets, scan_cfg, findings, finding_origin, reflected_probes,
                   failed_sends>>

\* A confirm request answered with an unescaped reflection: a finding, break.
ScanConfirmHit ==
    /\ phase = "confirm"
    /\ LET target == targets[ti]
           param == target.injectable_params[pi]
           pp == payloads_for_param(target, param)
       IN  \E outs \in OutcomeSeqs(scan_cfg, pp.payloads[k]) :
             LET result == execute_target(scan_cfg, outs) IN
             /\ result.success /\ result.response # NoResponse
             /\ is_reflected_unescaped(pp.payloads[k], result.response.body)
             /\ findings' = Append(findings,
                                   XSSFinding(target, param, pp.context, pp.payloads[k],
                                              result.response.status))
             /\ finding_origin' = Append(finding_origin, <<ti, pi>>)
             /\ SetPos(ConfirmGoOn(AfterFinding(k, Len(pp.payloads))))
             /\ reflected_confirms' = ReflectedConfirm(result.response, pp.payloads[k])
    /\ sent_log' = Append(sent_log, Sent)
    /\ UNCHANGED <<targets, scan_cfg, reflected_probes, failed_sends>>

\* The state scan_xss enters its loops in.
ScanInit ==
    /\ targets \in ScanTargetLists
    /\ scan_cfg \in {RequestConfig(0, DefaultRetryOnStatus), RequestConfig(1, DefaultRetryOnStatus)}
    /\ ti = 1
    /\ pi = 1
    /\ phase = "target"
    /\ k = 1
    /\ probe_hit = FALSE
    /\ findings = <<>>
    /\ finding_origin = <<>>
    /\ sent_log = <<>>
    /\ reflected_probes = {}
    /\ reflected_confirms = {}
    /\ failed_sends = {}

\* The detector while another component is the one modelled.
ScanIdle ==
    /\ targets = <<>>
    /\ scan_cfg = RequestConfig(1, DefaultRetryOnStatus)
    /\ ti = 1
    /\ pi = 1
    /\ phase = "idle"
    /\ k = 1
    /\ probe_hit = FALSE
    /\ findings = <<>>
    /\ finding_origin = <<>>
    /\ sent_log = <<>>
    /\ reflected_probes = {}
    /\ reflected_confirms = {}
    /\ failed_sends = {}

(***************************************************************************)
(* build_request_pairs.  The local existing_counts is a function from the  *)
(* keys counted so far to their counts.                                    *)
(***************************************************************************)
\* existing_counts.get(key, 0)
Count(existing_counts, key) ==
    IF key \in DOMAIN existing_counts THEN existing_counts[key] ELSE 0

\* existing_counts[key] = existing_counts.get(key, 0) + 1
Incr(existing_counts, key) ==
    [x \in DOMAIN existing_counts \cup {key} |->
        IF x = key THEN Count(existing_counts, key) + 1 ELSE existing_counts[x]]

\* The locals pairs and existing_counts before the loops.
NoPairs == [pairs |-> <<>>, existing_counts |-> [x \in {} |-> 0]]

\* FixedStep leaving out a pair whose key an earlier pair carried.
FixedStep_SkipRepeated(acc, pair, tested_param, payload) ==
    IF Count(acc.existing_counts, pair[1]) > 0 THEN acc
    ELSE [pairs |-> Append(acc.pairs, IF pair[1] = tested_param
                                        THEN <<pair[1], payload>> ELSE pair),
          existing_counts |-> Incr(acc.existing_counts, pair[1])]

\* One iteration of `for key, value in target.fixed_params`.
FixedStep(acc, pair, tested_param, payload) ==
    [pairs |-> Append(acc.pairs, IF pair[1] = tested_param
                                   THEN <<pair[1], payload>> ELSE pair),
     existing_counts |-> Incr(acc.existing_counts, pair[1])]

RECURSIVE FixedLoop(_, _, _, _)
FixedLoop(acc, fixed_params, tested_param, payload) ==
    IF fixed_params = <<>> THEN acc
    ELSE FixedLoop(FixedStep(acc, Head(fixed_params), tested_param, payload),
                   Tail(fixed_params), tested_param, payload)

\* InjectableStep without the `continue` for a key that has a pair already.
InjectableStep_AppendAlways(acc, key, tested_param, payload, default_injectable_value) ==
    [pairs |-> Append(acc.pairs, IF key = tested_param
                                   THEN <<key, payload>>
                                   ELSE <<key, default_injectable_value>>),
     existing_counts |-> Incr(acc.existing_counts, key)]

\* One iteration of `for key in target.injectable_params`.
InjectableStep(acc, key, tested_param, payload, default_injectable_value) ==
    IF Count(acc.existing_counts, key) > 0 THEN acc
    ELSE [pairs |-> Append(acc.pairs, IF key = tested_param
                                        THEN <<key, payload>>
                                        ELSE <<key, default_injectable_value>>),
          existing_counts |-> Incr(acc.existing_counts, key)]

RECURSIVE InjectableLoop(_, _, _, _, _)
InjectableLoop(acc, injectable_params, tested_param, payload, default_injectable_value) ==
    IF injectable_params = <<>> THEN acc
    ELSE InjectableLoop(InjectableStep(acc, Head(injectable_params), tested_param, payload,
                                       default_injectable_value),
                        Tail(injectable_params), tested_param, payload,
                        default_injectable_value)

\* AppendMissing that never appends.
AppendMissing_Never(acc, target, tested_param, payload) == acc.pairs

\* `if tested_param and existing_counts.get(tested_param, 0) == 0 and
\*  tested_param not in target.injectable_params: pairs.append(...)`; return pairs
AppendMissing(acc, target, tested_param, payload) ==
    IF /\ tested_param # ""
       /\ Count(acc.existing_counts, tested_param) = 0
       /\ tested_param \notin Range(target.injectable_params)
      THEN Append(acc.pairs, <<tested_param, payload>>)
      ELSE acc.pairs

\* build_request_pairs(target, tested_param, payload, default_injectable_value)
build_request_pairs(target, tested_param, payload, default_injectable_value) ==
    LET fixed == FixedLoop(NoPairs, target.fixed_params, tested_param, payload)
        filled == InjectableLoop(fixed, target.injectable_params, tested_param, payload,
                                 default_injectable_value)
    IN  AppendMissing(filled, target, tested_param, payload)

\* The arguments build_request_pairs is applied to.  A payload is an atom here:
\* the function only copies it.
MaxFixedLen == 2

PairsTarget(inj, fx) ==
    Target(UrlRoot, "GET", inj, fx, UrlRoot, "form", None, <<>>, <<>>, <<>>)

PairsInit ==
    LET FixedLists == UNION {[1..n -> {"id", "q"} \X {"5", ""}] : n \in 0..MaxFixedLen}
        InjectableLists == {Sorted(S) : S \in SUBSET {"c", "id", "q"}}
    IN  /\ bp_target \in {PairsTarget(inj, fx) : inj \in InjectableLists, fx \in FixedLists}
        /\ bp_tested_param \in {"id", "q", "c", "sort", ""}
        /\ bp_payload \in {"<p>", "5"}
        /\ bp_default \in {"test", ""}
        /\ bp_pairs = <<>>
        /\ bp_pc = "call"

PairsIdle ==
    /\ bp_target = PairsTarget(<<>>, <<>>)
    /\ bp_tested_param = ""
    /\ bp_payload = ""
    /\ bp_default = "test"
    /\ bp_pairs = <<>>
    /\ bp_pc = "idle"

\* The call returns.
PairsBuild ==
    /\ bp_pc = "call"
    /\ bp_pairs' = build_request_pairs(bp_target, bp_tested_param, bp_payload, bp_default)
    /\ bp_pc' = "returned"
    /\ UNCHANGED <<bp_target, bp_tested_param, bp_payload, bp_default>>

(***************************************************************************)
(* extract_page_targets applied to a drawn page: a URL with a query and no *)
(* form, or a URL without query and one form of drawn controls.            *)
(***************************************************************************)
MaxQueryLen == 2
MaxControls == 2

\* What parse_qsl(query, keep_blank_values=True) gives for the drawn queries:
\* "id=5", "+id+=5" (key " id "), "=5" (key ""), "+=5" (key " "), "q=" (blank value).
QueryLists ==
    UNION {[1..n -> {"id", " id ", "", " ", "q"} \X {"5", ""}] : n \in 0..MaxQueryLen}

ControlPool ==
    { Input("text", "q", None),
      Input("hidden", "id", "5"),
      Input("checkbox", "opt", "v"),
      Checked(Input("checkbox", "opt", "v")),
      Checked(Input("checkbox", "opt", None)),
      Checked(Input("CheckBox", "opt", "")),
      Checked(Input("radio", "sort", "")),
      Checked(Input("checkbox", " ", "v")),
      Input("reset", "c", "r"),
      Input("file", "q", None),
      Textarea("msg", "hi"),
      Select("sel", FALSE, <<Option("1", "one", FALSE)>>),
      Button(None, "btn", "go"),
      Disabled(Input("text", "q", None)),
      Disabled(Checked(Input("checkbox", "opt", "v"))),
      Disabled(Textarea("msg", "hi")),
      Disabled(Select("sel", FALSE, <<Option("1", "one", FALSE)>>)),
      Disabled(Button(None, "btn", "go")),
      InFieldset(Input("hidden", "id", "5"), FALSE, FALSE),
      InFieldset(Input("hidden", "id", "5"), TRUE, FALSE),
      InFieldset(Input("hidden", "id", "5"), TRUE, TRUE),
      InLegendCopy(Input("hidden", "id", "5"), TRUE),
      InFieldset(InFieldset(Textarea("msg", "hi"), FALSE, FALSE), TRUE, FALSE),
      InFieldset(InFieldset(Checked(Input("checkbox", "opt", "v")), TRUE, TRUE), TRUE, FALSE) }

\* A copy of a legend comes after the legend it copies, control for control.
WellFormed(ctrls) ==
    LET LegendOriginal(c) ==
            [c EXCEPT !.fieldsets =
                [i \in DOMAIN c.fieldsets |->
                    IF c.fieldsets[i].in_legend_copy
                      THEN [disabled |-> c.fieldsets[i].disabled,
                            in_first_legend |-> TRUE, in_legend_copy |-> FALSE]
                      ELSE c.fieldsets[i]]]
    IN  \A i \in DOMAIN ctrls :
            (\E f \in DOMAIN ctrls[i].fieldsets : ctrls[i].fieldsets[f].in_legend_copy)
                => \E j \in 1..(i - 1) : ctrls[j] = LegendOriginal(ctrls[i])

ControlLists ==
    {ctrls \in UNION {[1..n -> ControlPool] : n \in 0..MaxControls} : WellFormed(ctrls)}

ExtractInit ==
    /\ \/ /\ ex_url \in {MkUrl(SeedHost, "/s", q, "") : q \in QueryLists}
          /\ ex_forms = <<>>
          /\ ex_include_submit = FALSE
       \/ /\ ex_url = UrlRoot
          /\ ex_forms \in {<<Form("get", HrefNone, None, ctrls)>> : ctrls \in ControlLists}
          /\ ex_include_submit \in BOOLEAN
       \/ LET InputTypes ==
                   {"text", "search", "email", "url", "tel", "password", "number", "range",
                    "date", "datetime-local", "time", "month", "week", "color", "hidden",
                    "submit", "button", "image", "checkbox", "radio", "reset", "file",
                    "Number", " number ", "", None}
               TypedControls ==
                   {Input(ty, "q", "v") : ty \in InputTypes}
                     \cup {Button(ty, "q", "v") : ty \in {"submit", "button", "reset", None}}
                     \cup {Textarea("q", "v"), Select("q", FALSE, <<Option("1", "one", FALSE)>>)}
           IN  /\ ex_url = UrlRoot
               /\ ex_forms \in {<<Form("get", HrefNone, None, <<c>>)>> : c \in TypedControls}
               /\ ex_include_submit = FALSE
    /\ ex_targets = <<>>
    /\ ex_contexts = <<>>
    /\ ex_pc = "call"

ExtractIdle ==
    /\ ex_url = UrlRoot
    /\ ex_forms = <<>>
    /\ ex_include_submit = FALSE
    /\ ex_targets = <<>>
    /\ ex_contexts = <<>>
    /\ ex_pc = "idle"

\* The call returns.
ExtractPage ==
    /\ ex_pc = "call"
    /\ ex_targets' = extract_page_targets(ex_url, ex_forms, ex_include_submit)
    /\ ex_pc' = "returned"
    /\ UNCHANGED <<ex_url, ex_forms, ex_include_submit, ex_contexts>>

\* payloads_for_param's context for every name the targets record a type for.
ExtractClassify ==
    /\ ex_pc = "returned"
    /\ ex_contexts' =
          [i \in DOMAIN ex_targets |->
              [j \in DOMAIN ex_targets[i].param_types |->
                  LET name == ex_targets[i].param_types[j][1]
                  IN  [name |-> name,
                       type |-> ParamType(ex_targets[i], name),
                       context |-> payloads_for_param(ex_targets[i], name).context]]]
    /\ ex_pc' = "classified"
    /\ UNCHANGED <<ex_url, ex_forms, ex_include_submit, ex_targets>>

(***************************************************************************)
(* The specifications.                                                     *)
(***************************************************************************)
InitCrawl == CrawlInit /\ ExecIdle /\ ScanIdle /\ ReflectIdle /\ PairsIdle /\ ExtractIdle

NextCrawl ==
    \/ (CrawlSkipVisited /\ UNCHANGED <<execVars, scanVars, reflectVars, pairsVars, extractVars>>)
    \/ (CrawlFetchError /\ UNCHANGED <<execVars, scanVars, reflectVars, pairsVars, extractVars>>)
    \/ (CrawlNotHtml /\ UNCHANGED <<execVars, scanVars, reflectVars, pairsVars, extractVars>>)
    \/ (CrawlPage /\ UNCHANGED <<execVars, scanVars, reflectVars, pairsVars, extractVars>>)
    \/ (CrawlReturn /\ UNCHANGED <<execVars, scanVars, reflectVars, pairsVars, extractVars>>)

SpecCrawl == InitCrawl /\ [][NextCrawl]_vars

(***************************************************************************)
(* run_xss_scan: crawl_targets, then scan_xss on what it returned.          *)
(***************************************************************************)
\* `return list(visited), all_targets`: a pair of lists.  The order list() gives
\* the visited set is left open; items holds the elements.
CrawlResult ==
    <<[py_type |-> "list", items |-> visited], [py_type |-> "list", items |-> all_targets]>>

\* `targets = crawl_targets(...)`; `return scan_xss(targets=targets)`: scan_xss
\* takes the default RequestConfig and reads `target.injectable_params` of the
\* first element of targets, which raises AttributeError on an element that has
\* no such attribute.
RunXssScan ==
    /\ crawl_pc = "done" /\ phase = "idle"
    /\ targets' = CrawlResult
    /\ scan_cfg' = RequestConfig(1, DefaultRetryOnStatus)
    /\ phase' = IF "injectable_params" \in DOMAIN CrawlResult[1] THEN "target" ELSE "raised"
    /\ UNCHANGED <<ti, pi, k, probe_hit, findings, finding_origin, sent_log,
                   reflected_probes, failed_sends, reflected_confirms>>

InitRun == CrawlInit /\ ExecIdle /\ ScanIdle /\ ReflectIdle /\ PairsIdle /\ ExtractIdle

NextRun ==
    \/ (CrawlSkipVisited /\ UNCHANGED <<execVars, scanVars, reflectVars, pairsVars, extractVars>>)
    \/ (CrawlFetchError /\ UNCHANGED <<execVars, scanVars, reflectVars, pairsVars, extractVars>>)
    \/ (CrawlNotHtml /\ UNCHANGED <<execVars, scanVars, reflectVars, pairsVars, extractVars>>)
    \/ (CrawlPage /\ UNCHANGED <<execVars, scanVars, reflectVars, pairsVars, extractVars>>)
    \/ (CrawlReturn /\ UNCHANGED <<execVars, scanVars, reflectVars, pairsVars, extractVars>>)
    \/ (RunXssScan /\ UNCHANGED <<crawlVars, execVars, reflectVars, pairsVars, extractVars>>)

SpecRun == InitRun /\ [][NextRun]_vars

InitExec == CrawlIdle /\ ExecInit /\ ScanIdle /\ ReflectIdle /\ PairsIdle /\ ExtractIdle

NextExec ==
    \/ (ExecResponse /\ UNCHANGED <<crawlVars, scanVars, reflectVars, pairsVars, extractVars>>)
    \/ (ExecError /\ UNCHANGED <<crawlVars, scanVars, reflectVars, pairsVars, extractVars>>)
    \/ (ExecExhausted /\ UNCHANGED <<crawlVars, scanVars, reflectVars, pairsVars, extractVars>>)

SpecExec == InitExec /\ [][NextExec]_vars

InitScan == CrawlIdle /\ ExecIdle /\ ScanInit /\ ReflectIdle /\ PairsIdle /\ ExtractIdle

NextScan ==
    \/ (ScanSkipTarget /\ UNCHANGED <<crawlVars, execVars, reflectVars, pairsVars, extractVars>>)
    \/ (ScanEnterTarget /\ UNCHANGED <<crawlVars, execVars, reflectVars, pairsVars, extractVars>>)
    \/ (ScanProbeFailed /\ UNCHANGED <<crawlVars, execVars, reflectVars, pairsVars, extractVars>>)
    \/ (ScanProbeMiss /\ UNCHANGED <<crawlVars, execVars, reflectVars, pairsVars, extractVars>>)
    \/ (ScanProbeHit /\ UNCHANGED <<crawlVars, execVars, reflectVars, pairsVars, extractVars>>)
    \/ (ScanConfirmFailed /\ UNCHANGED <<crawlVars, execVars, reflectVars, pairsVars, extractVars>>)
    \/ (ScanConfirmMiss /\ UNCHANGED <<crawlVars, execVars, reflectVars, pairsVars, extractVars>>)
    \/ (ScanConfirmHit /\ UNCHANGED <<crawlVars, execVars, reflectVars, pairsVars, extractVars>>)
    \/ (ScanReturn /\ UNCHANGED <<crawlVars, execVars, reflectVars, pairsVars, extractVars>>)

SpecScan == InitScan /\ [][NextScan]_vars

InitReflect == CrawlIdle /\ ExecIdle /\ ScanIdle /\ ReflectInit /\ PairsIdle /\ ExtractIdle

NextReflect ==
    \/ (ReflectTrue /\ UNCHANGED <<crawlVars, execVars, scanVars, pairsVars, extractVars>>)
    \/ (ReflectFalse /\ UNCHANGED <<crawlVars, execVars, scanVars, pairsVars, extractVars>>)

SpecReflect == InitReflect /\ [][NextReflect]_vars

InitPairs == CrawlIdle /\ ExecIdle /\ ScanIdle /\ ReflectIdle /\ PairsInit /\ ExtractIdle

NextPairs == PairsBuild /\ UNCHANGED <<crawlVars, execVars, scanVars, reflectVars, extractVars>>

SpecPairs == InitPairs /\ [][NextPairs]_vars

InitExtract == CrawlIdle /\ ExecIdle /\ ScanIdle /\ ReflectIdle /\ PairsIdle /\ ExtractInit

NextExtract ==
    \/ (ExtractPage /\ UNCHANGED <<crawlVars, execVars, scanVars, reflectVars, pairsVars>>)
    \/ (ExtractClassify /\ UNCHANGED <<crawlVars, execVars, scanVars, reflectVars, pairsVars>>)

SpecExtract == InitExtract /\ [][NextExtract]_vars

(***************************************************************************)
(* Properties of crawl_targets (SpecCrawl).                                *)
(***************************************************************************)
\* The pages fetched so far that were parsed as HTML.
ParsedPages ==
    {u \in visited : Fetch(u).resp = "ok" /\ IsHtml(Fetch(u).content_type)}

\* The targets extracted so far.
ExtractedSoFar ==
    UNION {Range(extract_page_targets(u, Fetch(u).forms, include_submit)) : u \in ParsedPages}

\* The tuple two targets must agree on to count as one.
DedupKey(t) ==
    <<t.method, t.url, t.injectable_params, t.fixed_params, t.submit_options,
      t.csrf_param_names, t.enctype, t.kind>>

\* C1: in every reachable state of crawl_targets the visited set holds at most
\* max_pages URLs, failed and non-HTML fetches included.
C1_VisitedWithinCap == Cardinality(visited) <= max_pages

\* The cap cut a crawl short: it ended with URLs still queued, max_pages >= 2
\* URLs visited, one of which failed to fetch and one of which was not HTML.
C1_Witness ==
    /\ crawl_pc = "done"
    /\ queue # <<>>
    /\ max_pages >= 2
    /\ Cardinality(visited) = max_pages
    /\ \E u \in visited : Fetch(u).resp = "error"
    /\ \E u \in visited : Fetch(u).resp = "ok" /\ ~IsHtml(Fetch(u).content_type)

\* C2: every URL in the pending queue or the visited set has the seed URL's host.
C2_SameHostOnly ==
    \A u \in Range(queue) \cup visited : u.host = base_url.host

\* A parsed page linked to other hosts (a subdomain, another case of the same
\* name) and to its own host, and the crawl went on to the same-host links.
C2_Witness ==
    /\ \E u \in ParsedPages :
         /\ \E i \in DOMAIN Fetch(u).links :
              Fetch(u).links[i].kind = "abs" /\ Fetch(u).links[i].host = "sub.h"
         /\ \E i \in DOMAIN Fetch(u).links :
              Fetch(u).links[i].kind = "abs" /\ Fetch(u).links[i].host = "H"
    /\ Cardinality(visited) >= 2
    /\ queue # <<>>

\* C6: the accumulator never holds two entries with the same dedup tuple, never
\* holds more entries than distinct tuples were extracted so far, and holds an
\* entry for each of them.
C6_OneEntryPerKey ==
    /\ \A i, j \in DOMAIN all_targets :
          i # j => DedupKey(all_targets[i]) # DedupKey(all_targets[j])
    /\ Len(all_targets) <= Cardinality({DedupKey(t) : t \in ExtractedSoFar})
    /\ \A t \in ExtractedSoFar :
          \E i \in DOMAIN all_targets : DedupKey(all_targets[i]) = DedupKey(t)

\* Two targets with the same tuple were extracted from two different pages, and
\* one page yielded the same target twice.
C6_Witness ==
    /\ \E t1, t2 \in ExtractedSoFar :
          t1.source_url # t2.source_url /\ DedupKey(t1) = DedupKey(t2)
    /\ \E u \in ParsedPages :
          \E i, j \in DOMAIN Fetch(u).forms : i # j /\ Fetch(u).forms[i] = Fetch(u).forms[j]
    /\ Len(all_targets) >= 2

(***************************************************************************)
(* Properties of scan_xss (SpecScan).                                      *)
(***************************************************************************)
\* Request i of sent_log is a request of phase ph for parameter <<t, p>>.
IsSent(i, ph, t, p) ==
    sent_log[i].phase = ph /\ sent_log[i].ti = t /\ sent_log[i].pi = p

\* C3: a confirm request for a parameter is sent only after a probe request for
\* that parameter was reflected verbatim and unescaped, and no probe request
\* for the parameter follows one of its confirm requests.
C3_ConfirmOnlyAfterProbeHit ==
    \A i \in DOMAIN sent_log :
        sent_log[i].phase = "confirm" =>
            /\ \E j \in 1..(i - 1) :
                 /\ IsSent(j, "probe", sent_log[i].ti, sent_log[i].pi)
                 /\ <<sent_log[j].ti, sent_log[j].pi, sent_log[j].k>> \in reflected_probes
            /\ \A j \in (i + 1)..Len(sent_log) :
                 ~IsSent(j, "probe", sent_log[i].ti, sent_log[i].pi)

\* A scan ended in which one parameter got confirm requests and another one,
\* all of whose probes went unreflected, got none.
C3_Witness ==
    /\ phase = "done"
    /\ \E i \in DOMAIN sent_log : sent_log[i].phase = "confirm"
    /\ \E i \in DOMAIN sent_log :
         /\ sent_log[i].phase = "probe"
         /\ sent_log[i].k = Len(get_probe_payloads)
         /\ <<sent_log[i].ti, sent_log[i].pi, sent_log[i].k>> \notin reflected_probes
         /\ \A j \in DOMAIN sent_log : ~IsSent(j, "confirm", sent_log[i].ti, sent_log[i].pi)

\* <<t1, p1>> comes before <<t2, p2>> in scan order.
ScanBefore(a, b) == a[1] < b[1] \/ (a[1] = b[1] /\ a[2] < b[2])

\* C5: the findings list holds at most one finding per (target, parameter) and
\* is in scan order: by target position, then by position in injectable_params.
C5_OneFindingPerParamInOrder ==
    /\ Len(finding_origin) = Len(findings)
    /\ \A i, j \in DOMAIN finding_origin :
          i < j => ScanBefore(finding_origin[i], finding_origin[j])
    /\ \A i \in DOMAIN findings :
          LET target == targets[finding_origin[i][1]] IN
          /\ findings[i].url = target.url
          /\ findings[i].method = target.method
          /\ findings[i].source_url = target.source_url
          /\ findings[i].param = target.injectable_params[finding_origin[i][2]]

\* A scan ended with findings for two parameters of one target.
C5_Witness ==
    /\ phase = "done"
    /\ \E i, j \in DOMAIN finding_origin :
          /\ i < j
          /\ finding_origin[i][1] = finding_origin[j][1]
          /\ finding_origin[i][2] # finding_origin[j][2]

(***************************************************************************)
(* Properties of is_reflected_unescaped (SpecReflect).                     *)
(***************************************************************************)
\* C4: a body holding the probe payload xssprobe123 verbatim and nothing
\* entity-escaped counts as reflected (a probe hit), and a body holding only
\* &lt;script&gt; does not count as a reflection of <script>.
C4_ProbeScenario ==
    reflect_pc = "returned" =>
        /\ (/\ reflect_payload = ProbePlain
            /\ Contains(reflect_text, ProbePlain)
            /\ "&" \notin Range(reflect_text))
              => reflect_result = TRUE
        /\ (reflect_payload = ScriptTag /\ reflect_text = html_escape(ScriptTag))
              => reflect_result = FALSE

(***************************************************************************)
(* Properties of execute_target (SpecExec).                                *)
(***************************************************************************)
\* The attempts made so far, as the send events of the trace.
Sends == SelectSeq(exec_trace, LAMBDA e : e.ev = "send")

\* max(1, 1 + retries)
AttemptLimit == IF cfg.retries >= 0 THEN 1 + cfg.retries ELSE 1

\* C7: a returned result with success true has a response and no error; one
\* with success false has exactly one of response and error.
C7_ResultShape ==
    exec_pc = "returned" =>
        /\ exec_result.success =>
              exec_result.response.kind = "response" /\ exec_result.error = None
        /\ ~exec_result.success =>
              (exec_result.response.kind = "response") # (exec_result.error # None)

\* A call returned success although an earlier attempt had raised.
C7_Witness ==
    /\ exec_pc = "returned"
    /\ exec_result.success
    /\ \E i \in DOMAIN Sends : Sends[i].out.kind = "error"

\* C8 as stated: at most 1 + config.retries attempts are made, and a sleep
\* occurs only between two attempts.
C8_AtMostOnePlusRetries ==
    /\ Len(Sends) <= 1 + cfg.retries
    /\ \A i \in DOMAIN exec_trace :
          exec_trace[i].ev = "sleep" =>
              /\ i > 1 /\ exec_trace[i - 1].ev = "send"
              /\ i < Len(exec_trace) => exec_trace[i + 1].ev = "send"
              /\ i = Len(exec_trace) => exec_pc = "loop" /\ attempt < AttemptLimit

\* C8 amended: at most max(1, 1 + config.retries) attempts are made, numbered
\* 1, 2, ... in order, and every sleep follows an attempt and is followed by
\* the next one (a sleep that ends the trace is in a call that has not returned
\* and still has an attempt to make).
C8_AtMostMaxAttempts ==
    /\ Len(Sends) <= AttemptLimit
    /\ \A i \in DOMAIN Sends : Sends[i].attempt = i
    /\ \A i \in DOMAIN exec_trace :
          exec_trace[i].ev = "sleep" =>
              /\ i > 1 /\ exec_trace[i - 1].ev = "send"
              /\ i < Len(exec_trace) => exec_trace[i + 1].ev = "send"
              /\ i = Len(exec_trace) => exec_pc = "loop" /\ attempt < AttemptLimit

\* A call with retries = 2 returned after three attempts and two sleeps.
C8_Witness ==
    /\ exec_pc = "returned"
    /\ cfg.retries = 2
    /\ Len(Sends) = 3
    /\ Len(exec_trace) = 5

\* C9: a returned success carries the response of the last attempt made; a
\* response with a retryable status is returned only from the final permitted
\* attempt, and there it is returned with success true; a retryable response
\* of an earlier attempt is followed by a sleep and another attempt.
C9_RetryableStatus ==
    /\ (exec_pc = "returned" /\ exec_result.success) =>
          /\ exec_result.attempts = Len(Sends)
          /\ exec_result.response = Sends[Len(Sends)].out
          /\ exec_result.response.status \in cfg.retry_on_status =>
                exec_result.attempts = AttemptLimit
    /\ \A i \in DOMAIN Sends :
          (Sends[i].out.kind = "response" /\ Sends[i].out.status \in cfg.retry_on_status) =>
              IF i = AttemptLimit
                THEN /\ exec_pc = "returned"
                     /\ exec_result.success
                     /\ exec_result.response = Sends[i].out
                ELSE /\ exec_pc = "returned" => exec_result.attempts > i
                     /\ 2 * i <= Len(exec_trace)
                     /\ exec_trace[2 * i].ev = "sleep"
                     /\ \/ Len(Sends) > i
                        \/ exec_pc = "loop" /\ attempt < AttemptLimit

\* A call returned, with success true, the retryable response of its third
\* attempt, after a retryable response of an earlier attempt.
C9_Witness ==
    /\ exec_pc = "returned"
    /\ exec_result.success
    /\ exec_result.attempts = 3
    /\ exec_result.response.status \in cfg.retry_on_status
    /\ Sends[1].out.kind = "response"

\* The last attempt made raised.
LastAttemptRaised == Sends # <<>> /\ Sends[Len(Sends)].out.kind = "error"

\* C10 as stated: a call whose attempts are exhausted by a transport failure
\* returns success false, no response, the message of the last failure and the
\* number of attempts made.
C10_FailureCarriesLastMessage ==
    (exec_pc = "returned" /\ LastAttemptRaised) =>
        /\ ~exec_result.success
        /\ exec_result.response = NoResponse
        /\ exec_result.error = Sends[Len(Sends)].out.msg
        /\ exec_result.attempts = Len(Sends)

\* C10 amended: the error is the message of the last failure, or the text
\* "unknown request error" when that message is empty.
C10_FailureCarriesLastMessageOrPlaceholder ==
    (exec_pc = "returned" /\ LastAttemptRaised) =>
        /\ ~exec_result.success
        /\ exec_result.response = NoResponse
        /\ exec_result.error =
              IF Sends[Len(Sends)].out.msg = "" THEN "unknown request error"
              ELSE Sends[Len(Sends)].out.msg
        /\ exec_result.attempts = Len(Sends)
        /\ Len(Sends) = AttemptLimit

\* A call failed after two attempts that raised with different messages.
C10_Witness ==
    /\ exec_pc = "returned"
    /\ ~exec_result.success
    /\ Len(Sends) >= 2
    /\ Sends[Len(Sends)].out.kind = "error"
    /\ Sends[Len(Sends) - 1].out.kind = "error"
    /\ Sends[Len(Sends)].out.msg # Sends[Len(Sends) - 1].out.msg
    /\ Sends[Len(Sends)].out.msg # ""

(***************************************************************************)
(* Properties of build_request_pairs (SpecPairs).                          *)
(***************************************************************************)
\* C11: no baseline fixed pair is omitted: the first len(fixed_params) pairs of
\* the result carry the keys of fixed_params in the same order, duplicates
\* included, each with its value unchanged except that a pair whose key is
\* tested_param carries the payload.
C11_FixedPairsKept ==
    bp_pc = "returned" =>
        LET fixed == bp_target.fixed_params IN
        /\ Len(bp_pairs) >= Len(fixed)
        /\ \A i \in DOMAIN fixed :
              /\ bp_pairs[i][1] = fixed[i][1]
              /\ bp_pairs[i][2] = IF fixed[i][1] = bp_tested_param
                                    THEN bp_payload ELSE fixed[i][2]

\* A call with a key repeated in fixed_params that is the tested one, values
\* other than the payload, and an injectable parameter appended after them.
C11_Witness ==
    LET fixed == bp_target.fixed_params IN
    /\ bp_pc = "returned"
    /\ Len(fixed) = 2
    /\ fixed[1][1] = fixed[2][1]
    /\ fixed[1][1] = bp_tested_param
    /\ fixed[1][2] # fixed[2][2]
    /\ \A i \in DOMAIN fixed : fixed[i][2] # bp_payload
    /\ Len(bp_pairs) > Len(fixed)

\* The keys a target declares, fixed or injectable.
DeclaredKeys ==
    {bp_target.fixed_params[i][1] : i \in DOMAIN bp_target.fixed_params}
        \cup Range(bp_target.injectable_params)

\* The result holds a pair for tested_param and every such pair carries the payload.
TestedCarriesPayload ==
    /\ \E i \in DOMAIN bp_pairs : bp_pairs[i][1] = bp_tested_param
    /\ \A i \in DOMAIN bp_pairs :
          bp_pairs[i][1] = bp_tested_param => bp_pairs[i][2] = bp_payload

\* C12 as stated: for every target and every tested_param, declared by the
\* target or not, the result holds at least one pair with key tested_param and
\* every pair with that key carries the payload.
C12_TestedAlwaysPresent == bp_pc = "returned" => TestedCarriesPayload

\* C12: for every target and every non-empty tested_param, declared by the
\* target or not, the result holds at least one pair with key tested_param and
\* every pair with that key carries the payload.
C12_NonEmptyTestedPresent ==
    (bp_pc = "returned" /\ bp_tested_param # "") => TestedCarriesPayload

\* A call for a parameter the target declares nowhere, on a target that has
\* fixed and injectable parameters: the pair is appended last.
C12_Witness ==
    /\ bp_pc = "returned"
    /\ bp_tested_param # ""
    /\ bp_tested_param \notin DeclaredKeys
    /\ bp_target.fixed_params # <<>>
    /\ bp_target.injectable_params # <<>>
    /\ bp_pairs[Len(bp_pairs)] = <<bp_tested_param, bp_payload>>

(***************************************************************************)
(* Properties of extract_page_targets (SpecExtract).                       *)
(***************************************************************************)
\* The names of sequence s are in sorted() order, none twice.
StrictlySorted(s) ==
    \A i, j \in DOMAIN s :
        i < j => \E a, b \in DOMAIN NameOrder : a < b /\ NameOrder[a] = s[i] /\ NameOrder[b] = s[j]

\* The call was for a page whose URL has a query string that parses to pairs.
QueryCall == ex_pc = "returned" /\ ex_forms = <<>> /\ ex_url.query # <<>>

\* C13 as stated: for any query string, injectable_params is the sorted set of
\* the unique keys of the parsed query and fixed_params is the parsed list of
\* (key, value) pairs in original order, every original pair preserved.
C13_EveryPairKept ==
    QueryCall =>
        /\ Len(ex_targets) = 1
        /\ ex_targets[1].fixed_params = ex_url.query
        /\ StrictlySorted(ex_targets[1].injectable_params)
        /\ Range(ex_targets[1].injectable_params)
              = {ex_url.query[i][1] : i \in DOMAIN ex_url.query}

\* C13: for any query string that parses to pairs, fixed_params is the parsed
\* list without the pairs whose key is empty or whitespace only, in original
\* order, each key stripped of surrounding whitespace, duplicate keys and blank
\* values kept; injectable_params is the sorted set of the unique keys of
\* fixed_params.
C13_NamedPairsKept ==
    QueryCall =>
        LET named == SelectSeq(ex_url.query, LAMBDA pr : Strip(pr[1]) # "") IN
        /\ Len(ex_targets) = 1
        /\ ex_targets[1].fixed_params
              = [i \in DOMAIN named |-> <<Strip(named[i][1]), named[i][2]>>]
        /\ StrictlySorted(ex_targets[1].injectable_params)
        /\ Range(ex_targets[1].injectable_params)
              = {Strip(named[i][1]) : i \in DOMAIN named}

\* A query whose two keys are the same name, one written with surrounding
\* whitespace and with a blank value: both pairs are kept under the one name.
C13_Witness ==
    /\ QueryCall
    /\ Len(ex_url.query) = 2
    /\ ex_url.query[1] = <<" id ", "">>
    /\ ex_url.query[2] = <<"id", "5">>
    /\ ex_targets[1].fixed_params = <<(<<"id", "">>), (<<"id", "5">>)>>
    /\ ex_targets[1].injectable_params = <<"id">>

\* The call was for a page with one form.
FormCall == ex_pc = "returned" /\ Len(ex_forms) = 1

\* A control is disabled: it has the disabled attribute, or an ancestor
\* fieldset has it and the control is not inside that fieldset's first legend.
IsDisabledControl(c) ==
    \/ c.disabled
    \/ \E f \in DOMAIN c.fieldsets :
          c.fieldsets[f].disabled /\ ~c.fieldsets[f].in_first_legend

\* The form with its disabled controls taken out.
EnabledPart(form) ==
    [form EXCEPT !.controls = SelectSeq(form.controls, LAMBDA c : ~IsDisabledControl(c))]

\* C14: a disabled control, whatever its tag and type, contributes no name to
\* injectable_params and no pair to fixed_params: the target of a form is the
\* target of the same form without its disabled controls.
C14_DisabledContributeNothing ==
    FormCall =>
        LET without == extract_page_targets(ex_url, <<EnabledPart(ex_forms[1])>>,
                                            ex_include_submit)
        IN  /\ ex_targets[1].injectable_params = without[1].injectable_params
            /\ ex_targets[1].fixed_params = without[1].fixed_params

\* The pairs of sequence pairs whose key is name, in order.
PairsOf(pairs, name) == SelectSeq(pairs, LAMBDA pr : pr[1] = name)

\* C16: an enabled checkbox with name n always makes n injectable, and it
\* contributes a fixed pair for n exactly when it carries checked: the pair's
\* value is then the declared value attribute, or "on" when no value is
\* declared.  (The pairs are attributed to a checkbox that is the only control
\* of its name.)
C16_CheckboxPair ==
    FormCall =>
        LET ctrls == ex_forms[1].controls
            target == ex_targets[1]
        IN  \A i \in DOMAIN ctrls :
                LET c == ctrls[i]
                    n == Strip(c.name)
                IN  (/\ c.tag = "input"
                     /\ Lower(c.type) = "checkbox"
                     /\ ~IsDisabledControl(c)
                     /\ n # "")
                    => /\ n \in Range(target.injectable_params)
                       /\ (\A j \in DOMAIN ctrls : j # i => Strip(ctrls[j].name) # n)
                            => PairsOf(target.fixed_params, n)
                                 = IF c.checked
                                     THEN <<(<<n, IF c.value = None THEN "on" ELSE c.value>>)>>
                                     ELSE <<>>

(***************************************************************************)
(* Properties of the crawl order (SpecCrawl, FairSpecCrawl).               *)
(***************************************************************************)
RECURSIVE Firsts(_, _)
\* The elements of s whose key (the element of keys at the same index) no
\* earlier element has, in order.
Firsts(s, keys) ==
    IF s = <<>> THEN <<>>
    ELSE LET n == Len(s)
             r == Firsts(SubSeq(s, 1, n - 1), SubSeq(keys, 1, n - 1))
         IN  IF \E j \in 1..(n - 1) : keys[j] = keys[n] THEN r ELSE Append(r, s[n])

RECURSIVE TargetsOf(_)
\* The targets of the pages among the URLs of sequence urls that parse as HTML,
\* in the order of urls.
TargetsOf(urls) ==
    IF urls = <<>> THEN <<>>
    ELSE (IF Head(urls) \in ParsedPages
            THEN extract_page_targets(Head(urls), Fetch(Head(urls)).forms, include_submit)
            ELSE <<>>)
         \o TargetsOf(Tail(urls))

\* C17: URLs are fetched in FIFO order of their first enqueue (breadth-first
\* from the seed): the fetched sequence is the start of the sequence of enqueued
\* URLs without repeats, and the target list is that of the fetched pages in
\* this order without repeated keys; both are functions of the seed, max_pages
\* and the site alone.
C17_FifoOrder ==
    LET order == Firsts(enqueue_log, enqueue_log)
        found == TargetsOf(fetch_log)
    IN  /\ Len(fetch_log) <= Len(order)
        /\ fetch_log = SubSeq(order, 1, Len(fetch_log))
        /\ all_targets = Firsts(found, [i \in DOMAIN found |-> DedupKey(found[i])])

\* A finished crawl of three pages in which a URL was enqueued more than once
\* and URLs found later than the third page's were left unfetched.
C17_Witness ==
    /\ crawl_pc = "done"
    /\ Len(fetch_log) = 3
    /\ Len(enqueue_log) > Len(Firsts(enqueue_log, enqueue_log))
    /\ Len(Firsts(enqueue_log, enqueue_log)) > 3
    /\ Len(all_targets) >= 2

\* C18: each URL is fetched at most once per crawl, however often it is
\* enqueued: a dequeued URL that is already visited is dropped without a fetch,
\* and no URL that is visited when its link is discovered is enqueued.
C18_FetchedAtMostOnce ==
    /\ [](\A i, j \in DOMAIN fetch_log : fetch_log[i] = fetch_log[j] => i = j)
    /\ [][(crawl_pc = "loop" /\ queue # <<>> /\ Head(queue) \in visited)
            => (fetch_log' = fetch_log /\ visited' = visited)]_vars
    /\ [][\A i \in DOMAIN enqueue_log' :
            i > Len(enqueue_log) => enqueue_log'[i] \notin visited']_vars

\* A finished crawl that dequeued more URLs than it fetched: a URL enqueued
\* twice was dropped the second time.
C18_Witness ==
    /\ crawl_pc = "done"
    /\ Len(enqueue_log) - Len(queue) > Len(fetch_log)
    /\ Len(fetch_log) >= 2

\* C19: crawl_targets terminates for every site and every max_pages, cycles
\* and self-links included.  Every step returns, or visits one more URL (of at
\* most max_pages), or leaves visited as it is and shortens the queue, so no
\* run goes on for ever; and it returns only with the queue exhausted or the
\* cap reached.
C19_CrawlTerminates ==
    /\ [][\/ crawl_pc' = "done"
          \/ Cardinality(visited') > Cardinality(visited)
          \/ visited' = visited /\ Len(queue') < Len(queue)]_vars
    /\ [](Cardinality(visited) <= max_pages)
    /\ [](crawl_pc = "done" => (queue = <<>> \/ Cardinality(visited) >= max_pages))

\* Page u has a link that crawl_targets resolves to v.
LinksTo(u, v) ==
    \E i \in DOMAIN Fetch(u).links :
        /\ is_good_link(Fetch(u).links[i])
        /\ urldefrag(urljoin(u, Fetch(u).links[i])) = v

\* A crawl that ended with its queue exhausted below the cap, on a site where a
\* parsed page links to itself and two parsed pages link to each other.
C19_Witness ==
    /\ crawl_pc = "done"
    /\ queue = <<>>
    /\ Cardinality(visited) < max_pages
    /\ \E u \in ParsedPages : LinksTo(u, u)
    /\ \E u, v \in ParsedPages : u # v /\ LinksTo(u, v) /\ LinksTo(v, u)

\* The GET of url raises, or answers with a content type that is not HTML.
FetchUnusable(url) ==
    \/ Fetch(url).resp = "error"
    \/ Fetch(url).resp = "ok" /\ Fetch(url).content_type = "application/json"

\* C20: a URL whose fetch fails at transport level or whose response is not
\* HTML is abandoned: it stays in visited, adds nothing to the targets and
\* nothing to the queue, and the crawl goes on with the next queued URL.
C20_UnusablePageAbandoned ==
    /\ [][visited \subseteq visited']_vars
    /\ [][(/\ crawl_pc = "loop"
           /\ queue # <<>>
           /\ Cardinality(visited) < max_pages
           /\ Head(queue) \notin visited
           /\ FetchUnusable(Head(queue)))
            => (/\ visited' = visited \cup {Head(queue)}
                /\ all_targets' = all_targets
                /\ seen_target_keys' = seen_target_keys
                /\ queue' = Tail(queue)
                /\ crawl_pc' = "loop")]_vars

\* A finished crawl that parsed a page, then fetched a failing URL and after it
\* a non-HTML URL: it went on after the first and kept the targets it had.
C20_Witness ==
    /\ crawl_pc = "done"
    /\ all_targets # <<>>
    /\ \E i, j \in DOMAIN fetch_log :
          /\ 1 < i /\ i < j
          /\ fetch_log[1] \in ParsedPages
          /\ Fetch(fetch_log[i]).resp = "error"
          /\ Fetch(fetch_log[j]).resp = "ok"
          /\ Fetch(fetch_log[j]).content_type = "application/json"

(***************************************************************************)
(* Properties of the course of scan_xss (SpecScan).                        *)
(***************************************************************************)
\* The first probe request was sent for every injectable parameter of every target.
AllParamsProbed ==
    \A t \in DOMAIN targets :
        \A p \in DOMAIN targets[t].injectable_params :
            \E i \in DOMAIN sent_log :
                IsSent(i, "probe", t, p) /\ sent_log[i].k = 1

\* The place of the scan in its loops: target, parameter, phase, payload.
ScanPlace(t, p, ph, kk) ==
    <<t, p, CASE ph = "target" -> 0 [] ph = "probe" -> 1 [] OTHER -> 2, kk>>

\* Place a comes before place b, in the order of the loops.
PlaceBefore(a, b) ==
    \E n \in 1..4 : a[n] < b[n] /\ \A m \in 1..(n - 1) : a[m] = b[m]

\* C15: scan_xss never aborts on a failed request: whatever the declared field
\* types and whichever executions fail, every step moves the scan forward in its
\* loops or returns (so the scan ends), and it returns only after the first
\* probe request was sent for every injectable parameter of every target.
C15_EveryParamProbed ==
    /\ [](phase = "done" => (AllParamsProbed /\ ti > Len(targets)))
    /\ [][\/ phase' = "done"
          \/ PlaceBefore(ScanPlace(ti, pi, phase, k), ScanPlace(ti', pi', phase', k'))]_vars
    /\ [][failed_sends' # failed_sends
            => (phase' # "done" /\ findings' = findings)]_vars

\* A finished scan of several targets in which a probe request and a confirm
\* request failed and parameters after the failing ones were probed.
C15_Witness ==
    /\ phase = "done"
    /\ AllParamsProbed
    /\ Len(targets) >= 2
    /\ \E f, g \in failed_sends :
          /\ f.phase = "probe"
          /\ g.phase = "confirm"
          /\ \E i \in DOMAIN sent_log :
                /\ ScanBefore(<<f.ti, f.pi>>, <<sent_log[i].ti, sent_log[i].pi>>)
                /\ ScanBefore(<<g.ti, g.pi>>, <<sent_log[i].ti, sent_log[i].pi>>)


(***************************************************************************)
(* Properties of the target accumulator (SpecCrawl).                       *)
(***************************************************************************)
\* The index in sequence s of the first element whose dedup key is that of t.
FirstWithKey(s, t) ==
    CHOOSE i \in DOMAIN s :
        /\ DedupKey(s[i]) = DedupKey(t)
        /\ \A j \in 1..(i - 1) : DedupKey(s[j]) # DedupKey(t)

\* C21: the target list is in first-discovery order and first-seen wins: the
\* entry kept for a dedup key is the first target extracted with that key, with
\* the source_url of the earliest fetched page yielding it; entries keep the
\* order of their first extraction; a step never removes or reorders entries,
\* it only appends; and of two entries of one page a form never follows the
\* page's query target.
C21_FirstSeenWins ==
    /\ [](LET found == TargetsOf(fetch_log)
          IN  \A i \in DOMAIN all_targets :
                /\ \E n \in DOMAIN found : DedupKey(found[n]) = DedupKey(all_targets[i])
                /\ all_targets[i] = found[FirstWithKey(found, all_targets[i])]
                /\ \A j \in DOMAIN all_targets :
                      i < j => /\ FirstWithKey(found, all_targets[i])
                                    < FirstWithKey(found, all_targets[j])
                               /\ (all_targets[i].source_url = all_targets[j].source_url
                                     => ~(all_targets[i].kind = "query"
                                            /\ all_targets[j].kind = "form")))
    /\ [][/\ Len(all_targets') >= Len(all_targets)
          /\ SubSeq(all_targets', 1, Len(all_targets)) = all_targets]_vars

\* A finished crawl in which a target already kept was extracted again from a
\* later page, and one page gave both a form and its query target.
C21_Witness ==
    LET found == TargetsOf(fetch_log)
    IN  /\ crawl_pc = "done"
        /\ \E m, n \in DOMAIN found :
              /\ m < n
              /\ DedupKey(found[m]) = DedupKey(found[n])
              /\ found[m].source_url # found[n].source_url
        /\ \E i, j \in DOMAIN all_targets :
              /\ i < j
              /\ all_targets[i].source_url = all_targets[j].source_url
              /\ all_targets[i].kind = "form"
              /\ all_targets[j].kind = "query"


(***************************************************************************)
(* Properties of the probe and confirm loops (SpecScan).                   *)
(***************************************************************************)
\* Request i of the history reflected its probe payload verbatim and unescaped.
ProbeReflected(i) ==
    <<sent_log[i].ti, sent_log[i].pi, sent_log[i].k>> \in reflected_probes

ConfirmReflected(i) ==
    \E rc \in reflected_confirms :
        rc.ti = sent_log[i].ti /\ rc.pi = sent_log[i].pi /\ rc.k = sent_log[i].k

\* C23: in the confirm phase the context payloads of a parameter are sent in
\* catalog order, one after the other, each later one after a confirm request
\* that failed or did not reflect; a confirm response that reflects verbatim and
\* unescaped gives exactly one finding, carrying that payload, the classified
\* context, the target's method, url and source page, the parameter and the
\* status code of the response, and no later context payload is sent for the
\* parameter; a parameter none of whose confirm responses reflected has no
\* finding.
C23_ConfirmOrder ==
    /\ \A i \in DOMAIN sent_log :
          sent_log[i].phase = "confirm" =>
            LET t == sent_log[i].ti
                p == sent_log[i].pi
                n == sent_log[i].k
                pp == payloads_for_param(targets[t], targets[t].injectable_params[p])
            IN  /\ n \in DOMAIN pp.payloads
                /\ i > 1
                /\ IF n = 1
                     THEN IsSent(i - 1, "probe", t, p)
                     ELSE /\ IsSent(i - 1, "confirm", t, p)
                          /\ sent_log[i - 1].k = n - 1
                          /\ ~ConfirmReflected(i - 1)
                /\ (~ConfirmReflected(i) /\ n < Len(pp.payloads))
                      => IF i < Len(sent_log)
                           THEN IsSent(i + 1, "confirm", t, p) /\ sent_log[i + 1].k = n + 1
                           ELSE phase = "confirm" /\ ti = t /\ pi = p /\ k = n + 1
                /\ ConfirmReflected(i)
                      => \A j \in (i + 1)..Len(sent_log) : ~IsSent(j, "confirm", t, p)
    /\ \A rc \in reflected_confirms :
          LET target == targets[rc.ti]
              param == target.injectable_params[rc.pi]
              context == classify_xss_context(ParamType(target, param))
          IN  /\ Cardinality({f \in DOMAIN findings : finding_origin[f] = <<rc.ti, rc.pi>>}) = 1
              /\ \E f \in DOMAIN findings :
                    /\ finding_origin[f] = <<rc.ti, rc.pi>>
                    /\ findings[f] =
                         [finding_type |-> "Reflected XSS", url |-> target.url,
                          method |-> target.method, param |-> param, context |-> context,
                          payload |-> get_context_payloads(context)[rc.k],
                          source_url |-> target.source_url, status_code |-> rc.status]
    /\ \A f \in DOMAIN findings :
          \E rc \in reflected_confirms : finding_origin[f] = <<rc.ti, rc.pi>>

\* A finished scan in which one parameter's first context payload went
\* unreflected and its second one reflected and gave a finding, and another
\* parameter got every context payload after its probe hit and no finding.
C23_Witness ==
    /\ phase = "done"
    /\ \E rc \in reflected_confirms :
          /\ rc.k = 2
          /\ targets[rc.ti].source_url # targets[rc.ti].url
    /\ \E i \in DOMAIN sent_log :
          /\ sent_log[i].phase = "confirm"
          /\ sent_log[i].k = 2
          /\ ~ConfirmReflected(i)
          /\ \A f \in DOMAIN findings : finding_origin[f] # <<sent_log[i].ti, sent_log[i].pi>>


(***************************************************************************)
(* Properties of the declared field types (SpecExtract).                   *)
(***************************************************************************)
\* The form with its inputs of type reset or file taken out.
WithoutResetFile(form) ==
    [form EXCEPT !.controls =
        SelectSeq(form.controls,
                  LAMBDA c : ~(c.tag = "input" /\ Lower(OrElse(c.type, "text")) \in {"reset", "file"}))]

\* C25: an input of type reset or file is ignored entirely: the target of a form
\* is, in injectable_params, fixed_params, submit_options, csrf_param_names and
\* param_types, the target of the same form without its reset and file inputs,
\* so no name has a reset or file input's type as its recorded type.
C25_ResetFileIgnored ==
    FormCall =>
        LET without == extract_page_targets(ex_url, <<WithoutResetFile(ex_forms[1])>>,
                                            ex_include_submit)
        IN  /\ ex_targets[1].injectable_params = without[1].injectable_params
            /\ ex_targets[1].fixed_params = without[1].fixed_params
            /\ ex_targets[1].submit_options = without[1].submit_options
            /\ ex_targets[1].csrf_param_names = without[1].csrf_param_names
            /\ ex_targets[1].param_types = without[1].param_types


\* The context the classification rules give for a recorded type: query and
\* text-like types html, hidden and select attr, numeric and temporal types js,
\* submit/button types attr, anything else html.
RuleContext(recorded) ==
    LET ptype == Lower(Strip(recorded)) IN
    IF ptype \in {"query", "text", "search", "email", "url", "tel", "password", "textarea"}
      THEN "html"
    ELSE IF ptype \in {"hidden", "select"} THEN "attr"
    ELSE IF ptype \in {"number", "range", "date", "datetime-local", "time", "month", "week"}
      THEN "js"
    ELSE IF ptype \in {"submit", "button", "button:submit", "button:button", "button:reset"}
      THEN "attr"
    ELSE "html"

\* C24: every declared field type the extractor records is classified by the
\* rules: query and text-like types to html, hidden and select to attr, numeric
\* and temporal types to js, submit/button types to attr, anything unrecognized,
\* a missing type included, to html.
C24_ContextByType ==
    /\ classify_xss_context(None) = "html"
    /\ ex_pc = "classified" =>
          \A i \in DOMAIN ex_contexts : \A j \in DOMAIN ex_contexts[i] :
              ex_contexts[i][j].context = RuleContext(ex_contexts[i][j].type)


(***************************************************************************)
(* Properties of the request headers (SpecCrawl).                          *)
(***************************************************************************)
\* C26: every HTTP request of a scan, the crawler's page fetches and the
\* detector's probe and confirm requests alike, carries the scanner's fixed
\* User-Agent.
C26_FixedUserAgent ==
    /\ \A i \in DOMAIN fetch_agents : fetch_agents[i] = DEFAULT_USER_AGENT
    /\ \A i \in DOMAIN sent_log : sent_log[i].agent = DEFAULT_USER_AGENT


(***************************************************************************)
(* Properties of the appended injectable parameters (SpecPairs).           *)
(***************************************************************************)
\* The injectable parameters of the target that have no pair in fixed_params,
\* in injectable_params order.
MissingInjectable ==
    SelectSeq(bp_target.injectable_params,
              LAMBDA key : PairsOf(bp_target.fixed_params, key) = <<>>)

\* C27: every injectable parameter appears in the result.  Those without a pair
\* in fixed_params follow the baseline pairs, once each and in
\* injectable_params order, with the payload for tested_param and the default
\* value for the others; one that has a baseline pair is not appended again,
\* and when it is not the tested one its pairs are the baseline ones.
C27_InjectableFilledIn ==
    bp_pc = "returned" =>
        LET fixed == bp_target.fixed_params
            missing == MissingInjectable
            n == Len(fixed)
        IN  /\ Len(bp_pairs) >= n + Len(missing)
            /\ \A i \in DOMAIN missing :
                  bp_pairs[n + i] = <<missing[i], IF missing[i] = bp_tested_param
                                                    THEN bp_payload ELSE bp_default>>
            /\ \A i \in DOMAIN bp_target.injectable_params :
                  LET key == bp_target.injectable_params[i] IN
                  /\ PairsOf(bp_pairs, key) # <<>>
                  /\ Len(PairsOf(bp_pairs, key)) =
                        IF PairsOf(fixed, key) = <<>> THEN 1 ELSE Len(PairsOf(fixed, key))
                  /\ (PairsOf(fixed, key) # <<>> /\ key # bp_tested_param)
                        => PairsOf(bp_pairs, key) = PairsOf(fixed, key)

\* A call on a target whose injectable parameters are c, id and q and whose
\* baseline has pairs for id only, testing q with a non-empty default: c and q
\* are appended, id is not.
C27_Witness ==
    /\ bp_pc = "returned"
    /\ bp_target.injectable_params = <<"c", "id", "q">>
    /\ Len(bp_target.fixed_params) = 2
    /\ \A i \in DOMAIN bp_target.fixed_params : bp_target.fixed_params[i][1] = "id"
    /\ bp_tested_param = "q"
    /\ bp_default = "test"
    /\ bp_pairs[3] = <<"c", "test">>
    /\ bp_pairs[4] = <<"q", bp_payload>>
    /\ Len(bp_pairs) = 4


(***************************************************************************)
(* Properties of the last attempt of execute_target (SpecExec).            *)
(***************************************************************************)
\* C29: the outcome of execute_target is that of the last attempt made.  When
\* the last attempt raised, the result is a failure without a response, even if
\* an earlier attempt got a response; when it got a response, the result is a
\* success with that response, even if every earlier attempt raised; the
\* response of an earlier attempt is never the one returned.
C29_LastAttemptDecides ==
    exec_pc = "returned" =>
        /\ Sends # <<>>
        /\ LET last == Sends[Len(Sends)] IN
           /\ last.attempt = Len(Sends)
           /\ last.out.kind = "error"
                 => (~exec_result.success /\ exec_result.response = NoResponse)
           /\ last.out.kind = "response"
                 => (exec_result.success /\ exec_result.response = last.out)
           /\ exec_result.response # NoResponse => exec_result.response = last.out
           /\ exec_result.success <=> last.out.kind = "response"

\* A call that failed without a response although an earlier attempt had got a
\* response with a retryable status.
C29_Witness ==
    /\ exec_pc = "returned"
    /\ ~exec_result.success
    /\ exec_result.response = NoResponse
    /\ LastAttemptRaised
    /\ \E i \in 1..(Len(Sends) - 1) : Sends[i].out.kind = "response"


(***************************************************************************)
(* Properties of the end-to-end run (SpecRun).                             *)
(***************************************************************************)
\* C28: in run_xss_scan the detector iterates over exactly the deduplicated
\* target list of crawl_targets: once scan_xss was called, its targets are the
\* crawler's all_targets, every probe request is for one of them, and when the
\* run ends every accumulated target with an injectable parameter was probed.
C28_DetectorConsumesTargets ==
    (crawl_pc = "done" /\ phase # "idle") =>
        /\ Len(targets) = Len(all_targets)
        /\ \A i \in DOMAIN targets :
              "injectable_params" \in DOMAIN targets[i] /\ targets[i] = all_targets[i]
        /\ \A i \in DOMAIN sent_log : sent_log[i].ti \in DOMAIN all_targets
        /\ phase \in {"done", "raised"} =>
              \A t \in DOMAIN all_targets :
                  all_targets[t].injectable_params # <<>>
                      => \E i \in DOMAIN sent_log :
                            sent_log[i].ti = t /\ sent_log[i].phase = "probe"

====
